---- MODULE Spec2Model ----
(***************************************************************************)
(* A model of winit's Wayland WindowState                                  *)
(* (src/platform_impl/linux/wayland/window/state.rs).                      *)
(*                                                                         *)
(* One WindowState is modelled.  Its fields are the variables below; each  *)
(* public method is one action.  Besides the fields, the model keeps what  *)
(* the environment observes of the last method call: its name (op), its    *)
(* return value (ret), the calls it made on collaborators (requests) and   *)
(* the window events it pushed to the event sink (events).                 *)
(*                                                                         *)
(* Option<T> values are sequences of length at most one: <<>> is None and  *)
(* <<x>> is Some(x).  An Option<NonZeroU32> is a natural number, 0 being   *)
(* None.                                                                   *)
(***************************************************************************)
EXTENDS Integers, Sequences, FiniteSets

VARIABLES
    shell,                  \* discriminant of shell_specific: "Xdg" | "WlrLayer"
    title,                  \* WindowState::title
    title_arg,              \* the String last passed to set_title
    frame_callback_state,   \* ShellSpecificState::Xdg::frame_callback_state
    outstanding,            \* wl_surface.frame callbacks requested, not yet done
    ime_allowed,            \* WindowState::ime_allowed
    ime_purpose,            \* WindowState::ime_purpose
    text_inputs,            \* WindowState::text_inputs
    pointers,               \* WindowState::pointers, a Vec of weak references
    alive,                  \* the pointers whose weak references still upgrade
    told,                   \* per pointer, the constraints it was asked for and not yet released
    shown_cursor,           \* per pointer on the window, the cursor the window last gave it
    pointer_constraints,    \* WindowState::pointer_constraints is Some
    user_grab_mode,         \* GrabState::user_grab_mode
    current_grab_mode,      \* GrabState::current_grab_mode
    selected_cursor,        \* WindowState::selected_cursor
    cursor_visible,         \* WindowState::cursor_visible
    size,                   \* WindowState::size, the logical inner size <<w, h>>
    initial_size,           \* WindowState::initial_size
    scale_factor,           \* WindowState::scale_factor
    transparent,            \* WindowState::transparent
    viewport,               \* WindowState::viewport is Some
    fractional_scale,       \* WindowState::fractional_scale is Some
    last_configure,         \* last_configure of the shell variant
    frame,                  \* ShellSpecificState::Xdg::frame
    csd_fails,              \* ShellSpecificState::Xdg::csd_fails
    decorate,               \* ShellSpecificState::Xdg::decorate
    stateless_size,         \* ShellSpecificState::Xdg::stateless_size
    resizable,              \* ShellSpecificState::Xdg::resizable
    min_inner_size,         \* ShellSpecificState::Xdg::min_inner_size
    max_inner_size,         \* ShellSpecificState::Xdg::max_inner_size
    theme,                  \* WindowState::theme
    hints_at_pin,           \* the min and max hints stored when set_resizable(false) last replaced them
    has_pending_move,       \* ShellSpecificState::Xdg::has_pending_move
    unused_move_clicks,     \* Move clicks so far less move requests so far
    events,                 \* window events the last method pushed to the sink
    op,                     \* name of the last method called
    ret,                    \* what it returned
    requests                \* calls it made on collaborators, in order

titleVars == <<title, title_arg>>
fcbVars == <<frame_callback_state, outstanding>>
imeVars == <<ime_allowed, ime_purpose, text_inputs>>
grabVars == <<user_grab_mode, current_grab_mode>>
cursorVars == <<selected_cursor, cursor_visible>>
ptrVars == <<pointers, alive, told, shown_cursor, pointer_constraints, grabVars, cursorVars>>
geoVars == <<size, initial_size, scale_factor, transparent, viewport, fractional_scale>>
xdgVars == <<last_configure, frame, csd_fails, decorate, stateless_size>>
hintVars == <<resizable, min_inner_size, max_inner_size, theme, hints_at_pin>>
moveVars == <<has_pending_move, unused_move_clicks>>
obsVars == <<op, ret, requests, events>>
vars == <<shell, titleVars, fcbVars, imeVars, ptrVars, geoVars, xdgVars, hintVars, moveVars, obsVars>>

None == <<>>
Some(x) == <<x>>
IsSome(o) == o # <<>>
Unwrap(o) == o[1]

Max(a, b) == IF a >= b THEN a ELSE b
Min(a, b) == IF a <= b THEN a ELSE b

\* A request: a call on a collaborator with up to four integer arguments.
Req(name, a, b, c, d) == <<name, a, b, c, d>>
ReqNames(rs) == {rs[i][1] : i \in DOMAIN rs}

-----------------------------------------------------------------------------
(* Titles.  A String is modelled as its UTF-8 layout: `pad' one-byte       *)
(* characters followed by the characters of `tail', each given by its      *)
(* encoded width in bytes (1..4).                                          *)

TitleLimit == 1024
\* Titles of the model: pad lengths within PadSlack of the limit (and the
\* empty pad), tails of at most MaxTail characters.
PadSlack == 3
MaxTail == 2

RECURSIVE SumSeq(_)
SumSeq(s) == IF s = <<>> THEN 0 ELSE s[1] + SumSeq(Tail(s))

Prefix(s, n) == [i \in 1..n |-> s[i]]

\* String::len: the length in bytes.
StrLen(t) == t.pad + SumSeq(t.tail)

\* str::is_char_boundary: index 0, the end, or the first byte of a character.
IsCharBoundary(t, i) ==
    \/ i = 0
    \/ i = StrLen(t)
    \/ i < t.pad
    \/ /\ i >= t.pad
       /\ i < StrLen(t)
       /\ \E k \in 0..Len(t.tail) : i = t.pad + SumSeq(Prefix(t.tail, k))

\* String::truncate(new_len), new_len on a character boundary.
Truncate(t, new_len) ==
    IF new_len >= StrLen(t) THEN t
    ELSE IF new_len <= t.pad THEN [pad |-> new_len, tail |-> <<>>]
    ELSE LET k == CHOOSE k \in 0..Len(t.tail) :
                      new_len = t.pad + SumSeq(Prefix(t.tail, k))
         IN  [pad |-> t.pad, tail |-> Prefix(t.tail, k)]

\* The loop of set_title: step new_len down to a character boundary.
RECURSIVE BoundaryAtOrBelow(_, _)
BoundaryAtOrBelow(t, new_len) ==
    IF IsCharBoundary(t, new_len) THEN new_len
    ELSE BoundaryAtOrBelow(t, new_len - 1)

\* A set_title that cuts one byte too early.
TruncatedTitle_OffByOne(t) ==
    IF StrLen(t) >= TitleLimit
    THEN Truncate(t, BoundaryAtOrBelow(t, TitleLimit - 1))
    ELSE t

TruncatedTitle(t) ==
    IF StrLen(t) > TitleLimit
    THEN Truncate(t, BoundaryAtOrBelow(t, TitleLimit))
    ELSE t

Widths == 1..4
Tails == UNION {[1..n -> Widths] : n \in 0..MaxTail}
Pads == {0} \cup ((TitleLimit - PadSlack)..(TitleLimit + 2))
Titles == [pad : Pads, tail : Tails]
EmptyTitle == [pad |-> 0, tail |-> <<>>]

-----------------------------------------------------------------------------
(* Frame callbacks.                                                        *)

MaxOutstanding == 3

-----------------------------------------------------------------------------
(* Text inputs (IME).                                                      *)

TextInputIds == {1, 2}
Purposes == {"Normal", "Password", "Terminal"}
PurposeCode(p) == CASE p = "Normal" -> 0 [] p = "Password" -> 1 [] p = "Terminal" -> 2

RECURSIVE FlatMap(_, _)
FlatMap(F(_), s) == IF s = <<>> THEN <<>> ELSE F(s[1]) \o FlatMap(F, Tail(s))

Remove(s, x) == SelectSeq(s, LAMBDA y : y # x)
Contains(s, x) == \E i \in DOMAIN s : s[i] = x

-----------------------------------------------------------------------------
(* Pointers, cursor and cursor grab.                                       *)

PointerIds == {1, 2}
\* The longest pointer list of the model.
MaxPointers == 3
GrabModes == {"None", "Confined", "Locked"}
\* Cursors: Named(icon) and Custom(image), icons and images numbered.
CursorIcons == {0, 1}
CustomImages == {0}
Named(icon) == <<"Named", icon>>
Custom(image) == <<"Custom", image>>

\* apply_on_poiner: the pointers of the list whose weak reference upgrades, in
\* list order.
Upgraded(ptrs, live) == SelectSeq(ptrs, LAMBDA p : p \in live)

\* The request `name' on every pointer of ps.
OnEach(name, ps, a) == [i \in DOMAIN ps |-> Req(name, ps[i], a, 0, 0)]

\* set_cursor_grab_inner, first match: release the old mode.
ReleaseRequests(old_mode, ps) ==
    CASE old_mode = "None" -> <<>>
      [] old_mode = "Confined" -> OnEach("unconfine_pointer", ps, 0)
      [] old_mode = "Locked" -> OnEach("unlock_pointer", ps, 0)

\* set_cursor_grab_inner, second match: apply the new mode.
ApplyRequests(mode, ps) ==
    CASE mode = "Locked" -> OnEach("lock_pointer", ps, 0)
      [] mode = "Confined" -> OnEach("confine_pointer", ps, 0)
      [] mode = "None" -> <<>>

\* What each pointer holds after the calls rs: lock_pointer and confine_pointer
\* give it a lock and a confinement, unlock_pointer and unconfine_pointer take
\* them away.
RECURSIVE AfterRequests(_, _)
AfterRequests(t, rs) ==
    IF rs = <<>> THEN t
    ELSE LET r == Head(rs)
             p == r[2]
             t1 == CASE r[1] = "lock_pointer" -> [t EXCEPT ![p] = @ \cup {"lock"}]
                     [] r[1] = "unlock_pointer" -> [t EXCEPT ![p] = @ \ {"lock"}]
                     [] r[1] = "confine_pointer" -> [t EXCEPT ![p] = @ \cup {"confine"}]
                     [] r[1] = "unconfine_pointer" -> [t EXCEPT ![p] = @ \ {"confine"}]
                     [] OTHER -> t
         IN  AfterRequests(t1, Tail(rs))

\* The cursor no cursor image stands for (wl_pointer.set_cursor with no surface).
Empty == <<"Empty">>

\* The cursor each pointer shows after the calls rs, s being what it showed
\* before: the cursor of the last set_cursor call made on it.
RECURSIVE CursorAfter(_, _)
CursorAfter(s, rs) ==
    IF rs = <<>> THEN s
    ELSE LET r == Head(rs)
             p == r[2]
             s1 == CASE r[1] = "themed_pointer.set_cursor" -> [s EXCEPT ![p] = Some(Named(r[3]))]
                     [] r[1] = "wl_pointer.set_cursor" -> [s EXCEPT ![p] = Some(Custom(r[3]))]
                     [] r[1] = "wl_pointer.set_cursor_none" -> [s EXCEPT ![p] = Some(Empty)]
                     [] OTHER -> s
         IN  CursorAfter(s1, Tail(rs))

\* A set_cursor_grab_inner that reads a missing service as "nothing to do".
SetCursorGrabInner_NoServiceCheck(mode, old_mode, ps, constraints) ==
    [ret |-> "Ok",
     current |-> mode,
     requests |-> IF constraints
                  THEN ReleaseRequests(old_mode, ps) \o ApplyRequests(mode, ps)
                  ELSE <<>>]

\* A set_cursor_grab_inner that applies the new mode before releasing the old.
SetCursorGrabInner_ApplyFirst(mode, old_mode, ps, constraints) ==
    IF ~constraints
    THEN [ret |-> IF mode = "None" THEN "Ok" ELSE "NotSupported",
          current |-> old_mode,
          requests |-> <<>>]
    ELSE [ret |-> "Ok",
          current |-> mode,
          requests |-> ApplyRequests(mode, ps) \o ReleaseRequests(old_mode, ps)]

\* set_cursor_grab_inner: the result, the new current_grab_mode and the calls
\* made on the upgraded pointers ps.
SetCursorGrabInner(mode, old_mode, ps, constraints) ==
    IF ~constraints
    THEN [ret |-> IF mode = "None" THEN "Ok" ELSE "NotSupported",
          current |-> old_mode,
          requests |-> <<>>]
    ELSE [ret |-> "Ok",
          current |-> mode,
          requests |-> ReleaseRequests(old_mode, ps) \o ApplyRequests(mode, ps)]

\* A set_cursor_position that accepts any grab.
SetCursorPositionResult_AnyGrab(constraints, current) ==
    IF ~constraints THEN "NotSupported"
    ELSE IF current = "None" THEN "Os"
    ELSE "Ok"

\* set_cursor_position: the result.
SetCursorPositionResult(constraints, current) ==
    IF ~constraints THEN "NotSupported"
    ELSE IF current # "Locked" THEN "Os"
    ELSE "Ok"

\* apply_custom_cursor on one pointer.
CustomCursorRequests(image, p) ==
    <<Req("cursor_surface.attach", p, image, 0, 0),
      Req("cursor_surface.commit", p, 0, 0, 0),
      Req("wl_pointer.set_cursor", p, image, 0, 0)>>

\* The calls that show the selected cursor on the pointers ps.
ShowCursorRequests(cursor, ps) ==
    IF cursor[1] = "Named"
    THEN OnEach("themed_pointer.set_cursor", ps, cursor[2])
    ELSE FlatMap(LAMBDA p : CustomCursorRequests(cursor[2], p), ps)

\* The calls that hide the cursor on the pointers ps.
HideCursorRequests(ps) == OnEach("wl_pointer.set_cursor_none", ps, 0)

\* reload_cursor_style / set_cursor_visible(cursor_visible): the calls made.
ReloadCursorRequests(visible, cursor, ps) ==
    IF visible THEN ShowCursorRequests(cursor, ps) ELSE HideCursorRequests(ps)

-----------------------------------------------------------------------------
(* Sizes.  A LogicalSize<u32> is a pair <<w, h>>.  A dpi::Size is physical *)
(* or logical.                                                             *)

\* The largest width or height the compositor or the user names.
MaxDim == 3
Dims == 0..MaxDim
ScaleFactors == {1, 2}

Logical(w, h) == [kind |-> "Logical", w |-> w, h |-> h]
Physical(w, h) == [kind |-> "Physical", w |-> w, h |-> h]
Sizes == {Logical(w, h) : w \in Dims, h \in Dims}
             \cup {Physical(w, h) : w \in {MaxDim}, h \in {1, MaxDim}}

\* f64::round of a / b, halves away from zero (Pixel::cast to u32).
RoundDiv(a, b) == (2 * a + b) \div (2 * b)

\* Size::to_logical::<u32>(scale_factor)
ToLogical(sz, scale) ==
    IF sz.kind = "Logical" THEN <<sz.w, sz.h>>
    ELSE <<RoundDiv(sz.w, scale), RoundDiv(sz.h, scale)>>

-----------------------------------------------------------------------------
(* The decoration frame (WinitFrame, an sctk DecorationsFrame).  The model *)
(* keeps whether it is hidden and the window state it was last given.  Its *)
(* borders count only while it is shown and the window is not fullscreen.  *)

Flags == {"MAXIMIZED", "FULLSCREEN", "TILED_LEFT", "ACTIVATED", "SUSPENDED"}
Borders == [w |-> 1, h |-> 1]

NewFrame(hidden) == [hidden |-> hidden, state |-> {}]
FrameBorders(f) ==
    IF f.hidden \/ "FULLSCREEN" \in f.state THEN [w |-> 0, h |-> 0] ELSE Borders

\* u32::saturating_sub
SaturatingSub(a, b) == IF a > b THEN a - b ELSE 0

\* DecorationsFrame::subtract_borders: each axis an Option<NonZeroU32>.
SubtractBorders(f, w, h) ==
    <<SaturatingSub(w, FrameBorders(f).w), SaturatingSub(h, FrameBorders(f).h)>>
\* DecorationsFrame::add_borders
AddBorders(f, w, h) == <<w + FrameBorders(f).w, h + FrameBorders(f).h>>
\* DecorationsFrame::location
Location(f) == <<0 - FrameBorders(f).w, 0 - FrameBorders(f).h>>

-----------------------------------------------------------------------------
(* Configures.  A WindowConfigure is [new_size, state, decoration_mode,    *)
(* suggested_bounds]; new_size is a pair of Option<NonZeroU32>,            *)
(* suggested_bounds an Option<(u32, u32)>.  A LayerSurfaceConfigure is     *)
(* [new_size], a pair of u32.                                              *)

WindowConfigures ==
    [new_size : Dims \X Dims,
     state : SUBSET Flags,
     decoration_mode : {"Client", "Server"},
     suggested_bounds : {None} \cup {Some(b) : b \in Dims \X Dims}]
LayerConfigures == [new_size : Dims \X Dims]

Occluded(b) == <<"Occluded", b>>

\* WindowConfigure::is_maximized / is_fullscreen / is_tiled, is_stateless
IsStateless(c) == c.state \cap {"MAXIMIZED", "FULLSCREEN", "TILED_LEFT"} = {}

\* A creation policy without the sticky failure flag.
CreationAttempted_NoStickyFlag(c, subcompositor, f, fails) ==
    subcompositor /\ c.decoration_mode = "Client" /\ f = None

\* configure_xdg: is WinitFrame::new called?
CreationAttempted(c, subcompositor, f, fails) ==
    subcompositor /\ c.decoration_mode = "Client" /\ f = None /\ ~fails

\* A create / drop step whose new frame is always shown.
FrameAfterCreate_AlwaysShown(c, subcompositor, created, f, fails, decor) ==
    IF CreationAttempted(c, subcompositor, f, fails)
    THEN IF created THEN Some(NewFrame(FALSE)) ELSE None
    ELSE IF c.decoration_mode = "Server" THEN None
    ELSE f

\* A create / drop step that keeps the frame under server-side decorations.
FrameAfterCreate_KeepsOnServer(c, subcompositor, created, f, fails, decor) ==
    IF CreationAttempted(c, subcompositor, f, fails)
    THEN IF created THEN Some(NewFrame(~decor)) ELSE None
    ELSE f

\* configure_xdg: the frame after the create / drop step.
FrameAfterCreate(c, subcompositor, created, f, fails, decor) ==
    IF CreationAttempted(c, subcompositor, f, fails)
    THEN IF created THEN Some(NewFrame(~decor)) ELSE None
    ELSE IF c.decoration_mode = "Server" THEN None
    ELSE f

\* An Occluded event on every configure.
OccludedEvents_EveryConfigure(last, c) == <<Occluded("SUSPENDED" \in c.state)>>

\* configure_xdg: the Occluded events pushed.
OccludedEvents(last, c) ==
    LET occluded == "SUSPENDED" \in c.state
        was == IF IsSome(last) THEN "SUSPENDED" \in Unwrap(last).state ELSE FALSE
    IN  IF was # occluded THEN <<Occluded(occluded)>> ELSE <<>>

\* Bounds taken as they come, with no borders taken off.
InnerSizeBounds_Raw(f, c) ==
    IF IsSome(c.suggested_bounds) THEN Unwrap(c.suggested_bounds) ELSE <<0, 0>>

\* inner_size_bounds
InnerSizeBounds(f, c) ==
    LET configure_bounds == IF IsSome(c.suggested_bounds)
                            THEN Unwrap(c.suggested_bounds) ELSE <<0, 0>>
    IN  IF IsSome(f)
        THEN LET sub == SubtractBorders(Unwrap(f),
                                        IF configure_bounds[1] = 0 THEN 1 ELSE configure_bounds[1],
                                        IF configure_bounds[2] = 0 THEN 1 ELSE configure_bounds[2])
             IN  <<IF configure_bounds[1] # 0 THEN sub[1] ELSE 0,
                   IF configure_bounds[2] # 0 THEN sub[2] ELSE 0>>
        ELSE configure_bounds

\* A proposed size that is constrained by the bounds in every case.
ProposedSize_AlwaysConstrained(c, f, cur, stateless) ==
    IF c.new_size[1] # 0 /\ c.new_size[2] # 0
    THEN IF IsSome(f)
         THEN LET sub == SubtractBorders(Unwrap(f), c.new_size[1], c.new_size[2])
              IN  [size |-> <<IF sub[1] # 0 THEN sub[1] ELSE 1,
                              IF sub[2] # 0 THEN sub[2] ELSE 1>>,
                   constrain |-> TRUE]
         ELSE [size |-> c.new_size, constrain |-> TRUE]
    ELSE IF IsStateless(c) THEN [size |-> stateless, constrain |-> TRUE]
    ELSE [size |-> cur, constrain |-> TRUE]

\* configure_xdg: (new_size, constrain) before the bounds are applied.  f is
\* the frame after update_state.
ProposedSize(c, f, cur, stateless) ==
    IF c.new_size[1] # 0 /\ c.new_size[2] # 0
    THEN IF IsSome(f)
         THEN LET sub == SubtractBorders(Unwrap(f), c.new_size[1], c.new_size[2])
              IN  [size |-> <<IF sub[1] # 0 THEN sub[1] ELSE 1,
                              IF sub[2] # 0 THEN sub[2] ELSE 1>>,
                   constrain |-> FALSE]
         ELSE [size |-> c.new_size, constrain |-> FALSE]
    ELSE IF IsStateless(c) THEN [size |-> stateless, constrain |-> TRUE]
    ELSE [size |-> cur, constrain |-> TRUE]

\* configure_xdg: the bounds applied to the proposed size.
ConstrainedSize(p, bounds) ==
    IF p.constrain
    THEN <<IF bounds[1] # 0 THEN Min(p.size[1], bounds[1]) ELSE p.size[1],
           IF bounds[2] # 0 THEN Min(p.size[2], bounds[2]) ELSE p.size[2]>>
    ELSE p.size

\* A state comparison that does not force the first configure.
StateChangeRequiresResize_FirstNotForced(last, c) ==
    IF IsSome(last)
    THEN LET old_state == Unwrap(last).state
             diff == (old_state \ c.state) \cup (c.state \ old_state)
         IN  diff \ {"ACTIVATED", "SUSPENDED"} # {}
    ELSE FALSE

\* A state comparison that counts ACTIVATED and SUSPENDED too.
StateChangeRequiresResize_AllFlags(last, c) ==
    IF IsSome(last) THEN Unwrap(last).state # c.state ELSE TRUE

\* configure_xdg: state_change_requires_resize
StateChangeRequiresResize(last, c) ==
    IF IsSome(last)
    THEN LET old_state == Unwrap(last).state
             diff == (old_state \ c.state) \cup (c.state \ old_state)
         IN  diff \ {"ACTIVATED", "SUSPENDED"} # {}
    ELSE TRUE

\* A layer size that takes a zero axis literally.
LayerNewSize_ZeroSets(cur, c) == c.new_size

\* configure_layer: the new size, a zero axis keeping the current value.
LayerNewSize(cur, c) ==
    CASE c.new_size = <<0, 0>> -> cur
      [] c.new_size[1] = 0 /\ c.new_size[2] # 0 -> <<cur[1], c.new_size[2]>>
      [] c.new_size[1] # 0 /\ c.new_size[2] = 0 -> <<c.new_size[1], cur[2]>>
      [] OTHER -> c.new_size

\* A resize that gives the viewport the outer size, borders included.
Resize_ViewportOuter(inner_size, sh, last, f, stateless, vp, transp) ==
    LET new_stateless == IF sh = "Xdg" /\ IsSome(last) /\ IsStateless(Unwrap(last))
                         THEN inner_size ELSE stateless
        framed == sh = "Xdg" /\ IsSome(f)
        shown == framed /\ ~Unwrap(f).hidden
        panics == shown /\ (inner_size[1] = 0 \/ inner_size[2] = 0)
        loc == IF framed THEN Location(Unwrap(f)) ELSE <<0, 0>>
        outer == IF framed THEN AddBorders(Unwrap(f), inner_size[1], inner_size[2])
                 ELSE inner_size
    IN  [size |-> inner_size,
         stateless_size |-> new_stateless,
         panics |-> panics,
         requests |->
            IF panics THEN <<>>
            ELSE (IF shown THEN <<Req("frame.resize", inner_size[1], inner_size[2], 0, 0)>>
                  ELSE <<>>)
                 \o <<Req("set_opaque_region", IF transp THEN 0 ELSE 1, 0, 0, 0)>>
                 \o (IF sh = "Xdg"
                     THEN <<Req("set_window_geometry", loc[1], loc[2], outer[1], outer[2])>>
                     ELSE <<Req("layer.set_size", outer[1], outer[2], 0, 0)>>)
                 \o (IF vp
                     THEN <<Req("viewport.set_destination", outer[1], outer[2], 0, 0)>>
                     ELSE <<>>)]

\* A resize that never stores the stateless size.
Resize_StatelessNever(inner_size, sh, last, f, stateless, vp, transp) ==
    LET framed == sh = "Xdg" /\ IsSome(f)
        shown == framed /\ ~Unwrap(f).hidden
        panics == shown /\ (inner_size[1] = 0 \/ inner_size[2] = 0)
        loc == IF framed THEN Location(Unwrap(f)) ELSE <<0, 0>>
        outer == IF framed THEN AddBorders(Unwrap(f), inner_size[1], inner_size[2])
                 ELSE inner_size
    IN  [size |-> inner_size,
         stateless_size |-> stateless,
         panics |-> panics,
         requests |->
            IF panics THEN <<>>
            ELSE (IF shown THEN <<Req("frame.resize", inner_size[1], inner_size[2], 0, 0)>>
                  ELSE <<>>)
                 \o <<Req("set_opaque_region", IF transp THEN 0 ELSE 1, 0, 0, 0)>>
                 \o (IF sh = "Xdg"
                     THEN <<Req("set_window_geometry", loc[1], loc[2], outer[1], outer[2])>>
                     ELSE <<Req("layer.set_size", outer[1], outer[2], 0, 0)>>)
                 \o (IF vp
                     THEN <<Req("viewport.set_destination", inner_size[1], inner_size[2], 0, 0)>>
                     ELSE <<>>)]

\* A resize that stores the stateless size whatever the last configure is.
Resize_StatelessAlways(inner_size, sh, last, f, stateless, vp, transp) ==
    LET new_stateless == IF sh = "Xdg" THEN inner_size ELSE stateless
        framed == sh = "Xdg" /\ IsSome(f)
        shown == framed /\ ~Unwrap(f).hidden
        panics == shown /\ (inner_size[1] = 0 \/ inner_size[2] = 0)
        loc == IF framed THEN Location(Unwrap(f)) ELSE <<0, 0>>
        outer == IF framed THEN AddBorders(Unwrap(f), inner_size[1], inner_size[2])
                 ELSE inner_size
    IN  [size |-> inner_size,
         stateless_size |-> new_stateless,
         panics |-> panics,
         requests |->
            IF panics THEN <<>>
            ELSE (IF shown THEN <<Req("frame.resize", inner_size[1], inner_size[2], 0, 0)>>
                  ELSE <<>>)
                 \o <<Req("set_opaque_region", IF transp THEN 0 ELSE 1, 0, 0, 0)>>
                 \o (IF sh = "Xdg"
                     THEN <<Req("set_window_geometry", loc[1], loc[2], outer[1], outer[2])>>
                     ELSE <<Req("layer.set_size", outer[1], outer[2], 0, 0)>>)
                 \o (IF vp
                     THEN <<Req("viewport.set_destination", inner_size[1], inner_size[2], 0, 0)>>
                     ELSE <<>>)]

\* resize: the new size and stateless size and the calls made, for the shell
\* state (sh, last, f) the method finds.  It panics on a zero axis when a
\* frame is shown (NonZeroU32::new(..).unwrap()), after the sizes are stored.
Resize(inner_size, sh, last, f, stateless, vp, transp) ==
    LET new_stateless == IF sh = "Xdg" /\ IsSome(last) /\ IsStateless(Unwrap(last))
                         THEN inner_size ELSE stateless
        framed == sh = "Xdg" /\ IsSome(f)
        shown == framed /\ ~Unwrap(f).hidden
        panics == shown /\ (inner_size[1] = 0 \/ inner_size[2] = 0)
        loc == IF framed THEN Location(Unwrap(f)) ELSE <<0, 0>>
        outer == IF framed THEN AddBorders(Unwrap(f), inner_size[1], inner_size[2])
                 ELSE inner_size
    IN  [size |-> inner_size,
         stateless_size |-> new_stateless,
         panics |-> panics,
         requests |->
            IF panics THEN <<>>
            ELSE (IF shown THEN <<Req("frame.resize", inner_size[1], inner_size[2], 0, 0)>>
                  ELSE <<>>)
                 \o <<Req("set_opaque_region", IF transp THEN 0 ELSE 1, 0, 0, 0)>>
                 \o (IF sh = "Xdg"
                     THEN <<Req("set_window_geometry", loc[1], loc[2], outer[1], outer[2])>>
                     ELSE <<Req("layer.set_size", outer[1], outer[2], 0, 0)>>)
                 \o (IF vp
                     THEN <<Req("viewport.set_destination", inner_size[1], inner_size[2], 0, 0)>>
                     ELSE <<>>)]

ResizeRequests == {"frame.resize", "set_opaque_region", "set_window_geometry",
                   "layer.set_size", "viewport.set_destination"}

-----------------------------------------------------------------------------
(* Size hints and theme.  The fields resizable, min_inner_size and         *)
(* max_inner_size exist on a top-level window only; on a layer window the  *)
(* variables keep their initial values and no method reads them.           *)

MIN_WINDOW_SIZE == <<2, 1>>
MaxHint == 5
Themes == {"Light", "Dark"}
ThemeOptions == {None} \cup {Some(t) : t \in Themes}
ThemeCode(t) == IF t = None THEN 0 ELSE IF Unwrap(t) = "Light" THEN 1 ELSE 2
HintSizes == {None} \cup {Some(<<w, h>>) : w \in {1, MaxDim}, h \in {0, MaxDim}}

\* A minimum size hint that is not raised to MIN_WINDOW_SIZE.
MinSizeHint_NoFloor(sz, f) ==
    LET s0 == IF IsSome(sz) THEN Unwrap(sz) ELSE MIN_WINDOW_SIZE
    IN  IF IsSome(f) THEN AddBorders(Unwrap(f), s0[1], s0[2]) ELSE s0

\* set_min_inner_size: the value stored and sent for the top-level with frame f.
MinSizeHint(sz, f) ==
    LET s0 == IF IsSome(sz) THEN Unwrap(sz) ELSE MIN_WINDOW_SIZE
        s1 == <<Max(s0[1], MIN_WINDOW_SIZE[1]), Max(s0[2], MIN_WINDOW_SIZE[2])>>
    IN  IF IsSome(f) THEN AddBorders(Unwrap(f), s1[1], s1[2]) ELSE s1

\* set_max_inner_size: the value stored and sent for the top-level with frame f.
MaxSizeHint(sz, f) ==
    IF IsSome(sz)
    THEN IF IsSome(f)
         THEN Some(AddBorders(Unwrap(f), Unwrap(sz)[1], Unwrap(sz)[2]))
         ELSE sz
    ELSE None

SetMinSizeRequest(sz) == Req("window.set_min_size", sz[1], sz[2], 0, 0)
SetMaxSizeRequest(sz) ==
    IF IsSome(sz) THEN Req("window.set_max_size", Unwrap(sz)[1], Unwrap(sz)[2], 1, 0)
    ELSE Req("window.set_max_size", 0, 0, 0, 0)
WithinHints(mn, mx) ==
    /\ mn[1] <= MaxHint /\ mn[2] <= MaxHint
    /\ IsSome(mx) => (Unwrap(mx)[1] <= MaxHint /\ Unwrap(mx)[2] <= MaxHint)

-----------------------------------------------------------------------------
(* Construction: WindowState::new_xdg / new_layer.                         *)

InitCommon ==
    /\ shell \in {"Xdg", "WlrLayer"}
    /\ title = EmptyTitle
    /\ title_arg = EmptyTitle
    /\ frame_callback_state = "None"
    /\ outstanding = 0
    /\ ime_allowed = FALSE
    /\ ime_purpose = "Normal"
    /\ text_inputs = <<>>
    /\ pointers = <<>>
    /\ alive = PointerIds
    /\ told = [p \in PointerIds |-> {}]
    /\ shown_cursor = [p \in PointerIds |-> None]
    /\ pointer_constraints \in BOOLEAN
    /\ user_grab_mode = "None"
    /\ current_grab_mode = "None"
    /\ selected_cursor = Named(0)
    /\ cursor_visible = TRUE
    /\ \E sz \in Sizes :
          /\ initial_size = Some(sz)
          /\ size = ToLogical(sz, 1)
          /\ stateless_size = ToLogical(sz, 1)
    /\ scale_factor = 1
    /\ transparent = FALSE
    /\ viewport \in BOOLEAN
    /\ fractional_scale \in BOOLEAN
    /\ last_configure = None
    /\ frame = None
    /\ csd_fails = FALSE
    /\ decorate = TRUE
    /\ resizable = TRUE
    /\ min_inner_size = MIN_WINDOW_SIZE
    /\ max_inner_size = None
    /\ theme \in ThemeOptions
    /\ hints_at_pin = <<MIN_WINDOW_SIZE, None>>
    /\ has_pending_move = None
    /\ unused_move_clicks = 0
    /\ op = "new"
    /\ ret = "unit"
    /\ requests = <<>>
    /\ events = <<>>

-----------------------------------------------------------------------------
(* Methods.                                                                *)

\* set_title: truncate, forward to the toplevel (Xdg only), store.
SetTitle(t) ==
    LET new == TruncatedTitle(t) IN
    /\ title' = new
    /\ title_arg' = t
    /\ op' = "set_title"
    /\ ret' = "unit"
    /\ requests' = IF shell = "Xdg"
                   THEN <<Req("window.set_title", StrLen(new), 0, 0, 0)>>
                   ELSE <<>>
    /\ events' = <<>>
    /\ UNCHANGED <<shell, moveVars, hintVars, geoVars, xdgVars, fcbVars, imeVars, ptrVars>>

\* request_frame_callback
RequestFrameCallback ==
    /\ op' = "request_frame_callback"
    /\ ret' = "unit"
    /\ IF shell = "Xdg" /\ frame_callback_state \in {"None", "Received"}
       THEN /\ outstanding < MaxOutstanding
            /\ frame_callback_state' = "Requested"
            /\ outstanding' = outstanding + 1
            /\ requests' = <<Req("wl_surface.frame", 0, 0, 0, 0)>>
       ELSE /\ requests' = <<>>
            /\ UNCHANGED <<frame_callback_state, outstanding>>
    /\ events' = <<>>
    /\ UNCHANGED <<shell, moveVars, hintVars, geoVars, xdgVars, titleVars, imeVars, ptrVars>>

\* A done handler that clears the state instead of marking it received.
FrameCallbackReceived_Clears ==
    /\ outstanding > 0 \/ shell = "WlrLayer"
    /\ op' = "frame_callback_received"
    /\ ret' = "unit"
    /\ requests' = <<>>
    /\ IF shell = "Xdg"
       THEN /\ frame_callback_state' = "None"
            /\ outstanding' = outstanding - 1
       ELSE UNCHANGED <<frame_callback_state, outstanding>>
    /\ events' = <<>>
    /\ UNCHANGED <<shell, moveVars, hintVars, geoVars, xdgVars, titleVars, imeVars, ptrVars>>

\* frame_callback_received: the handler of the compositor's done event, which
\* the compositor sends once for each callback requested.
FrameCallbackReceived ==
    /\ outstanding > 0 \/ shell = "WlrLayer"
    /\ op' = "frame_callback_received"
    /\ ret' = "unit"
    /\ requests' = <<>>
    /\ IF shell = "Xdg"
       THEN /\ frame_callback_state' = "Received"
            /\ outstanding' = outstanding - 1
       ELSE UNCHANGED <<frame_callback_state, outstanding>>
    /\ events' = <<>>
    /\ UNCHANGED <<shell, moveVars, hintVars, geoVars, xdgVars, titleVars, imeVars, ptrVars>>

\* frame_callback_reset
FrameCallbackReset ==
    /\ op' = "frame_callback_reset"
    /\ ret' = "unit"
    /\ requests' = <<>>
    /\ frame_callback_state' = IF shell = "Xdg" THEN "None" ELSE frame_callback_state
    /\ events' = <<>>
    /\ UNCHANGED <<shell, moveVars, hintVars, geoVars, xdgVars, titleVars, imeVars, ptrVars, outstanding>>

\* text_input_entered
TextInputEntered(t) ==
    /\ text_inputs' = IF Contains(text_inputs, t) THEN text_inputs
                      ELSE Append(text_inputs, t)
    /\ op' = "text_input_entered"
    /\ ret' = "unit"
    /\ requests' = <<>>
    /\ events' = <<>>
    /\ UNCHANGED <<shell, moveVars, hintVars, geoVars, xdgVars, titleVars, fcbVars, ptrVars, ime_allowed, ime_purpose>>

\* text_input_left
TextInputLeft(t) ==
    /\ text_inputs' = Remove(text_inputs, t)
    /\ op' = "text_input_left"
    /\ ret' = "unit"
    /\ requests' = <<>>
    /\ events' = <<>>
    /\ UNCHANGED <<shell, moveVars, hintVars, geoVars, xdgVars, titleVars, fcbVars, ptrVars, ime_allowed, ime_purpose>>

\* A set_ime_allowed that records the flag only when a text input took it.
SetImeAllowed_OnlyIfApplied(allowed) ==
    LET one(t) == IF allowed
                  THEN <<Req("text_input.enable", t, 0, 0, 0),
                         Req("text_input.set_content_type", t, PurposeCode(ime_purpose), 0, 0),
                         Req("text_input.commit", t, 0, 0, 0)>>
                  ELSE <<Req("text_input.disable", t, 0, 0, 0),
                         Req("text_input.commit", t, 0, 0, 0)>>
    IN
    /\ ime_allowed' = IF text_inputs # <<>> THEN allowed ELSE ime_allowed
    /\ requests' = FlatMap(one, text_inputs)
    /\ op' = "set_ime_allowed"
    /\ ret' = IF text_inputs # <<>> THEN "true" ELSE "false"
    /\ events' = <<>>
    /\ UNCHANGED <<shell, moveVars, hintVars, geoVars, xdgVars, titleVars, fcbVars, ptrVars, ime_purpose, text_inputs>>

\* set_ime_allowed
SetImeAllowed(allowed) ==
    LET one(t) == IF allowed
                  THEN <<Req("text_input.enable", t, 0, 0, 0),
                         Req("text_input.set_content_type", t, PurposeCode(ime_purpose), 0, 0),
                         Req("text_input.commit", t, 0, 0, 0)>>
                  ELSE <<Req("text_input.disable", t, 0, 0, 0),
                         Req("text_input.commit", t, 0, 0, 0)>>
    IN
    /\ ime_allowed' = allowed
    /\ requests' = FlatMap(one, text_inputs)
    /\ op' = "set_ime_allowed"
    /\ ret' = IF text_inputs # <<>> THEN "true" ELSE "false"
    /\ events' = <<>>
    /\ UNCHANGED <<shell, moveVars, hintVars, geoVars, xdgVars, titleVars, fcbVars, ptrVars, ime_purpose, text_inputs>>

\* set_ime_purpose
SetImePurpose(purpose) ==
    LET one(t) == <<Req("text_input.set_content_type", t, PurposeCode(purpose), 0, 0),
                    Req("text_input.commit", t, 0, 0, 0)>>
    IN
    /\ ime_purpose' = purpose
    /\ requests' = FlatMap(one, text_inputs)
    /\ op' = "set_ime_purpose"
    /\ ret' = "unit"
    /\ events' = <<>>
    /\ UNCHANGED <<shell, moveVars, hintVars, geoVars, xdgVars, titleVars, fcbVars, ptrVars, ime_allowed, text_inputs>>

\* A configure_xdg that gives up when the frame cannot be created.
ConfigureXdgSized_FailureFatal(c, attempt, created, size0, stateless0, resizes, events0, frame2, fails, r) ==
    [initial_size |-> None,
     frame |-> frame2,
     csd_fails |-> (fails \/ (attempt /\ ~created)),
     events |-> events0,
     last_configure |-> Some(c),
     size |-> IF resizes THEN r.size ELSE size0,
     stateless_size |-> IF resizes THEN r.stateless_size ELSE stateless0,
     requests |-> (IF attempt
                   THEN <<Req("WinitFrame::new", IF created THEN 1 ELSE 0, 0, 0, 0)>>
                   ELSE <<>>)
                  \o (IF resizes /\ (created \/ ~attempt) THEN r.requests ELSE <<>>),
     ret |-> IF attempt /\ ~created THEN "panic"
             ELSE IF resizes /\ r.panics THEN "panic"
             ELSE IF resizes THEN "true" ELSE "false"]

\* configure_xdg on a top-level window: every field it writes, its result and
\* what it pushes and calls.  `subcompositor' tells whether the caller has one,
\* `created' whether WinitFrame::new succeeds when it is called.
ConfigureXdgSized(c, attempt, created, size0, stateless0, resizes, events0, frame2, fails, r) ==
    [initial_size |-> None,
     frame |-> frame2,
     csd_fails |-> (fails \/ (attempt /\ ~created)),
     events |-> events0,
     last_configure |-> Some(c),
     size |-> IF resizes THEN r.size ELSE size0,
     stateless_size |-> IF resizes THEN r.stateless_size ELSE stateless0,
     requests |-> (IF attempt
                   THEN <<Req("WinitFrame::new", IF created THEN 1 ELSE 0, 0, 0, 0)>>
                   ELSE <<>>)
                  \o (IF resizes THEN r.requests ELSE <<>>),
     ret |-> IF resizes /\ r.panics THEN "panic"
             ELSE IF resizes THEN "true" ELSE "false"]

\* A configure_xdg that resizes before it stores the configure.
ConfigureXdgFramed_ResizeBeforeStore(c, attempt, created, size0, stateless0, last, frame2, fails, vp, transp, new_size) ==
    ConfigureXdgSized(c, attempt, created, size0, stateless0,
                      StateChangeRequiresResize(last, c) \/ new_size # size0,
                      OccludedEvents(last, c), frame2, fails,
                      Resize(new_size, "Xdg", last, frame2, stateless0, vp, transp))

ConfigureXdgFramed(c, attempt, created, size0, stateless0, last, frame2, fails, vp, transp, new_size) ==
    ConfigureXdgSized(c, attempt, created, size0, stateless0,
                      StateChangeRequiresResize(last, c) \/ new_size # size0,
                      OccludedEvents(last, c), frame2, fails,
                      Resize(new_size, "Xdg", Some(c), frame2, stateless0, vp, transp))

ConfigureXdgSeeded(c, subcompositor, created, size0, stateless0, last, f, fails, decor, vp, transp, frame1) ==
    ConfigureXdgFramed(c, CreationAttempted(c, subcompositor, f, fails), created,
                       size0, stateless0, last, frame1, fails, vp, transp,
                       ConstrainedSize(ProposedSize(c, frame1, size0, stateless0),
                                       InnerSizeBounds(frame1, c)))

\* The frame after update_state(configure.state).
UpdateState(f, c) ==
    IF IsSome(f) THEN Some([Unwrap(f) EXCEPT !.state = c.state]) ELSE None

\* A configure_xdg that computes from the live size, whatever the pending
\* initial size is.
ConfigureXdgResult_KeepsRequested(c, subcompositor, created, cur, initial, scale, last, f, fails, decor, stateless, vp, transp) ==
    ConfigureXdgSeeded(c, subcompositor, created, cur, cur,
                       last, f, fails, decor, vp, transp,
                       UpdateState(FrameAfterCreate(c, subcompositor, created, f, fails, decor), c))

\* A configure_xdg that drops the pending initial size without applying it.
ConfigureXdgResult_InitialSizeDropped(c, subcompositor, created, cur, initial, scale, last, f, fails, decor, stateless, vp, transp) ==
    ConfigureXdgSeeded(c, subcompositor, created, cur, stateless,
                       last, f, fails, decor, vp, transp,
                       UpdateState(FrameAfterCreate(c, subcompositor, created, f, fails, decor), c))

ConfigureXdgResult(c, subcompositor, created, cur, initial, scale, last, f, fails, decor, stateless, vp, transp) ==
    ConfigureXdgSeeded(c, subcompositor, created,
                       IF IsSome(initial) THEN ToLogical(Unwrap(initial), scale) ELSE cur,
                       IF IsSome(initial) THEN ToLogical(Unwrap(initial), scale) ELSE stateless,
                       last, f, fails, decor, vp, transp,
                       UpdateState(FrameAfterCreate(c, subcompositor, created, f, fails, decor), c))

\* configure_xdg
ConfigureXdg(c, subcompositor, created) ==
    /\ op' = "configure_xdg"
    /\ IF shell # "Xdg"
       THEN /\ ret' = "false"
            /\ requests' = <<>>
            /\ events' = <<>>
            /\ UNCHANGED <<geoVars, xdgVars>>
       ELSE \* inputs that cannot matter are taken once
            /\ created \/ CreationAttempted(c, subcompositor, frame, csd_fails)
            /\ subcompositor \/ CreationAttempted(c, TRUE, frame, csd_fails)
            /\ \E res \in {ConfigureXdgResult(c, subcompositor, created, size, initial_size,
                                              scale_factor, last_configure, frame,
                                              csd_fails, decorate, stateless_size,
                                              viewport, transparent)} :
                  /\ initial_size' = res.initial_size
                  /\ frame' = res.frame
                  /\ csd_fails' = res.csd_fails
                  /\ events' = res.events
                  /\ last_configure' = res.last_configure
                  /\ size' = res.size
                  /\ stateless_size' = res.stateless_size
                  /\ requests' = res.requests
                  /\ ret' = res.ret
            /\ UNCHANGED <<scale_factor, transparent, viewport, fractional_scale, decorate>>
    /\ UNCHANGED <<shell, moveVars, hintVars, titleVars, fcbVars, imeVars, ptrVars>>

\* A configure_layer that does nothing when the size stays the same.
ConfigureLayer_SkipsUnchanged(c) ==
    /\ op' = "configure_layer"
    /\ events' = <<>>
    /\ IF shell # "WlrLayer"
       THEN /\ ret' = "true"
            /\ requests' = <<>>
            /\ UNCHANGED <<geoVars, xdgVars>>
       ELSE LET r == Resize(LayerNewSize(size, c), shell, Some(c), frame,
                            stateless_size, viewport, transparent)
                same == LayerNewSize(size, c) = size
            IN  /\ last_configure' = Some(c)
                /\ size' = r.size
                /\ stateless_size' = r.stateless_size
                /\ requests' = IF same THEN <<>> ELSE r.requests
                /\ ret' = IF same THEN "false" ELSE "true"
                /\ UNCHANGED <<initial_size, scale_factor, transparent, viewport, fractional_scale,
                               frame, csd_fails, decorate>>
    /\ UNCHANGED <<shell, moveVars, hintVars, titleVars, fcbVars, imeVars, ptrVars>>

\* A configure_layer that resizes a top-level window too.
ConfigureLayer_AnyShell(c) ==
    /\ op' = "configure_layer"
    /\ events' = <<>>
    /\ LET r == Resize(LayerNewSize(size, c), shell, last_configure, frame,
                       stateless_size, viewport, transparent)
       IN  /\ last_configure' = IF shell = "WlrLayer" THEN Some(c) ELSE last_configure
           /\ size' = r.size
           /\ stateless_size' = r.stateless_size
           /\ requests' = r.requests
           /\ ret' = "true"
           /\ UNCHANGED <<initial_size, scale_factor, transparent, viewport, fractional_scale,
                          frame, csd_fails, decorate>>
    /\ UNCHANGED <<shell, moveVars, hintVars, titleVars, fcbVars, imeVars, ptrVars>>

\* A configure_layer that resizes without storing the configure.
ConfigureLayer_NotStored(c) ==
    /\ op' = "configure_layer"
    /\ events' = <<>>
    /\ IF shell # "WlrLayer"
       THEN /\ ret' = "true"
            /\ requests' = <<>>
            /\ UNCHANGED <<geoVars, xdgVars>>
       ELSE LET r == Resize(LayerNewSize(size, c), shell, Some(c), frame,
                            stateless_size, viewport, transparent)
            IN  /\ size' = r.size
                /\ stateless_size' = r.stateless_size
                /\ requests' = r.requests
                /\ ret' = "true"
                /\ UNCHANGED <<initial_size, scale_factor, transparent, viewport, fractional_scale,
                               frame, csd_fails, decorate, last_configure>>
    /\ UNCHANGED <<shell, moveVars, hintVars, titleVars, fcbVars, imeVars, ptrVars>>

\* configure_layer
ConfigureLayer(c) ==
    /\ op' = "configure_layer"
    /\ events' = <<>>
    /\ IF shell # "WlrLayer"
       THEN /\ ret' = "true"
            /\ requests' = <<>>
            /\ UNCHANGED <<geoVars, xdgVars>>
       ELSE LET r == Resize(LayerNewSize(size, c), shell, Some(c), frame,
                            stateless_size, viewport, transparent)
            IN  /\ last_configure' = Some(c)
                /\ size' = r.size
                /\ stateless_size' = r.stateless_size
                /\ requests' = r.requests
                /\ ret' = "true"
                /\ UNCHANGED <<initial_size, scale_factor, transparent, viewport, fractional_scale,
                               frame, csd_fails, decorate>>
    /\ UNCHANGED <<shell, moveVars, hintVars, titleVars, fcbVars, imeVars, ptrVars>>

\* A request_inner_size that resizes whatever the last configure is.
RequestInnerSize_Always(inner_size) ==
    LET r == Resize(ToLogical(inner_size, scale_factor), shell, last_configure, frame,
                    stateless_size, viewport, transparent)
    IN
    /\ op' = "request_inner_size"
    /\ events' = <<>>
    /\ size' = r.size
    /\ stateless_size' = r.stateless_size
    /\ requests' = r.requests
    /\ ret' = IF r.panics THEN "panic" ELSE "size"
    /\ UNCHANGED <<shell, moveVars, hintVars, titleVars, fcbVars, imeVars, ptrVars, initial_size,
                   scale_factor, transparent, viewport, fractional_scale, last_configure, frame,
                   csd_fails, decorate>>

\* request_inner_size
RequestInnerSize(inner_size) ==
    LET r == Resize(ToLogical(inner_size, scale_factor), shell, last_configure, frame,
                    stateless_size, viewport, transparent)
        allowed == \/ shell = "WlrLayer"
                   \/ ~IsSome(last_configure)
                   \/ IsStateless(Unwrap(last_configure))
    IN
    /\ op' = "request_inner_size"
    /\ events' = <<>>
    /\ IF allowed
       THEN /\ size' = r.size
            /\ stateless_size' = r.stateless_size
            /\ requests' = r.requests
            /\ ret' = IF r.panics THEN "panic" ELSE "size"
       ELSE /\ requests' = <<>>
            /\ ret' = "size"
            /\ UNCHANGED <<size, stateless_size>>
    /\ UNCHANGED <<shell, moveVars, hintVars, titleVars, fcbVars, imeVars, ptrVars, initial_size,
                   scale_factor, transparent, viewport, fractional_scale, last_configure, frame,
                   csd_fails, decorate>>

\* A set_decorate that requests client-side mode whenever decorations are
\* turned off, whatever the last configure said.
SetDecorate_ClientAlways(d) ==
    /\ op' = "set_decorate"
    /\ events' = <<>>
    /\ ret' = "unit"
    /\ IF shell # "Xdg" \/ d = decorate
       THEN /\ requests' = <<>>
            /\ UNCHANGED <<frame, decorate>>
       ELSE /\ decorate' = d
            /\ frame' = IF IsSome(frame)
                        THEN Some([Unwrap(frame) EXCEPT !.hidden = ~d]) ELSE None
            /\ requests' = IF d THEN <<Req("request_decoration_mode_server", 0, 0, 0, 0)>>
                           ELSE <<Req("request_decoration_mode_client", 0, 0, 0, 0)>>
    /\ UNCHANGED <<shell, moveVars, hintVars, titleVars, fcbVars, imeVars, ptrVars, initial_size,
                   scale_factor, transparent, viewport, fractional_scale, last_configure, csd_fails,
                   size, stateless_size>>

\* set_decorate
SetDecorate(d) ==
    /\ op' = "set_decorate"
    /\ events' = <<>>
    /\ IF shell # "Xdg" \/ d = decorate
       THEN /\ ret' = "unit"
            /\ requests' = <<>>
            /\ UNCHANGED <<size, stateless_size, frame, decorate>>
       ELSE LET mode_request ==
                    IF IsSome(last_configure)
                       /\ Unwrap(last_configure).decoration_mode = "Server" /\ ~d
                    THEN <<Req("request_decoration_mode_client", 0, 0, 0, 0)>>
                    ELSE IF d THEN <<Req("request_decoration_mode_server", 0, 0, 0, 0)>>
                    ELSE <<>>
                frame1 == IF IsSome(frame)
                          THEN Some([Unwrap(frame) EXCEPT !.hidden = ~d])
                          ELSE None
                r == Resize(size, shell, last_configure, frame1, stateless_size,
                            viewport, transparent)
            IN  /\ decorate' = d
                /\ frame' = frame1
                /\ IF IsSome(frame)
                   THEN /\ size' = r.size
                        /\ stateless_size' = r.stateless_size
                        /\ requests' = mode_request \o r.requests
                        /\ ret' = IF r.panics THEN "panic" ELSE "unit"
                   ELSE /\ requests' = mode_request
                        /\ ret' = "unit"
                        /\ UNCHANGED <<size, stateless_size>>
    /\ UNCHANGED <<shell, moveVars, hintVars, titleVars, fcbVars, imeVars, ptrVars, initial_size,
                   scale_factor, transparent, viewport, fractional_scale, last_configure, csd_fails>>

\* set_scale_factor
SetScaleFactor(s) ==
    /\ op' = "set_scale_factor"
    /\ ret' = "unit"
    /\ events' = <<>>
    /\ scale_factor' = s
    /\ requests' = (IF ~fractional_scale
                    THEN <<Req("wl_surface.set_buffer_scale", s, 0, 0, 0)>> ELSE <<>>)
                   \o (IF shell = "Xdg" /\ IsSome(frame)
                       THEN <<Req("frame.set_scaling_factor", s, 0, 0, 0)>> ELSE <<>>)
    /\ UNCHANGED <<shell, moveVars, hintVars, titleVars, fcbVars, imeVars, ptrVars, xdgVars, size,
                   initial_size, transparent, viewport, fractional_scale>>

\* set_min_inner_size
SetMinInnerSize(sz) ==
    /\ op' = "set_min_inner_size"
    /\ ret' = "unit"
    /\ events' = <<>>
    /\ IF shell = "Xdg"
       THEN /\ WithinHints(MinSizeHint(sz, frame), None)
            /\ min_inner_size' = MinSizeHint(sz, frame)
            /\ requests' = <<SetMinSizeRequest(MinSizeHint(sz, frame))>>
       ELSE /\ requests' = <<>>
            /\ UNCHANGED min_inner_size
    /\ UNCHANGED <<shell, moveVars, titleVars, fcbVars, imeVars, ptrVars, geoVars, xdgVars,
                   resizable, max_inner_size, theme, hints_at_pin>>

\* set_max_inner_size
SetMaxInnerSize(sz) ==
    /\ op' = "set_max_inner_size"
    /\ ret' = "unit"
    /\ events' = <<>>
    /\ IF shell = "Xdg"
       THEN /\ WithinHints(MIN_WINDOW_SIZE, MaxSizeHint(sz, frame))
            /\ max_inner_size' = MaxSizeHint(sz, frame)
            /\ requests' = <<SetMaxSizeRequest(MaxSizeHint(sz, frame))>>
       ELSE /\ requests' = <<>>
            /\ UNCHANGED max_inner_size
    /\ UNCHANGED <<shell, moveVars, titleVars, fcbVars, imeVars, ptrVars, geoVars, xdgVars,
                   resizable, min_inner_size, theme, hints_at_pin>>

\* reload_min_max_hints: set_min_inner_size(Some(min_inner_size)) and then
\* set_max_inner_size(max_inner_size) with the stored values.
ReloadMinMaxHints ==
    /\ op' = "reload_min_max_hints"
    /\ ret' = "unit"
    /\ events' = <<>>
    /\ IF shell = "Xdg"
       THEN LET mn == MinSizeHint(Some(min_inner_size), frame)
                mx == MaxSizeHint(max_inner_size, frame)
            IN  /\ WithinHints(mn, mx)
                /\ min_inner_size' = mn
                /\ max_inner_size' = mx
                /\ requests' = <<SetMinSizeRequest(mn), SetMaxSizeRequest(mx)>>
       ELSE /\ requests' = <<>>
            /\ UNCHANGED <<min_inner_size, max_inner_size>>
    /\ UNCHANGED <<shell, moveVars, titleVars, fcbVars, imeVars, ptrVars, geoVars, xdgVars,
                   resizable, theme, hints_at_pin>>

\* set_resizable: on a change, restore the stored hints (resizable) or pin
\* both hints to the current size (not resizable), then tell the frame.
SetResizable(r) ==
    /\ op' = "set_resizable"
    /\ ret' = "unit"
    /\ events' = <<>>
    /\ IF shell # "Xdg" \/ r = resizable
       THEN /\ requests' = <<>>
            /\ UNCHANGED <<resizable, min_inner_size, max_inner_size, hints_at_pin>>
       ELSE LET mn == MinSizeHint(IF r THEN Some(min_inner_size) ELSE Some(size), frame)
                mx == MaxSizeHint(IF r THEN max_inner_size ELSE Some(size), frame)
            IN  /\ WithinHints(mn, mx)
                /\ resizable' = r
                /\ hints_at_pin' = IF r THEN hints_at_pin
                                   ELSE <<min_inner_size, max_inner_size>>
                /\ min_inner_size' = mn
                /\ max_inner_size' = mx
                /\ requests' = <<SetMinSizeRequest(mn), SetMaxSizeRequest(mx)>>
                               \o (IF IsSome(frame)
                                   THEN <<Req("frame.set_resizable", IF r THEN 1 ELSE 0, 0, 0, 0)>>
                                   ELSE <<>>)
    /\ UNCHANGED <<shell, moveVars, titleVars, fcbVars, imeVars, ptrVars, geoVars, xdgVars, theme>>

\* A set_theme that stores the theme on a layer window too.
SetTheme_OnLayer(t) ==
    /\ op' = "set_theme"
    /\ ret' = "unit"
    /\ events' = <<>>
    /\ theme' = t
    /\ requests' = IF shell = "Xdg" /\ IsSome(frame)
                   THEN <<Req("frame.set_config", ThemeCode(t), 0, 0, 0)>>
                   ELSE <<>>
    /\ UNCHANGED <<shell, moveVars, titleVars, fcbVars, imeVars, ptrVars, geoVars, xdgVars,
                   resizable, min_inner_size, max_inner_size, hints_at_pin>>

\* set_theme
SetTheme(t) ==
    /\ op' = "set_theme"
    /\ ret' = "unit"
    /\ events' = <<>>
    /\ IF shell = "Xdg"
       THEN /\ theme' = t
            /\ requests' = IF IsSome(frame)
                           THEN <<Req("frame.set_config", ThemeCode(t), 0, 0, 0)>>
                           ELSE <<>>
       ELSE /\ requests' = <<>>
            /\ UNCHANGED theme
    /\ UNCHANGED <<shell, moveVars, titleVars, fcbVars, imeVars, ptrVars, geoVars, xdgVars,
                   resizable, min_inner_size, max_inner_size, hints_at_pin>>

\* What DecorationsFrame::on_click resolves a click to: no action ("None"),
\* one of the frame actions, a Resize with an edge the match does not know, or
\* an action the match ignores.
FrameActions == {"None", "Minimize", "Maximize", "UnMaximize", "Close", "Move",
                 "Resize", "ResizeUnknownEdge", "ShowMenu", "Other"}
Serials == {1, 2}
\* The most Move clicks left without a move request.
MaxMoveClicks == 2

\* The call frame_click makes for the frame action.
FrameActionRequests(action, serial) ==
    CASE action = "Minimize" -> <<Req("window.set_minimized", 0, 0, 0, 0)>>
      [] action = "Maximize" -> <<Req("window.set_maximized", 0, 0, 0, 0)>>
      [] action = "UnMaximize" -> <<Req("window.unset_maximized", 0, 0, 0, 0)>>
      [] action = "Close" -> <<Req("queue_close", 0, 0, 0, 0)>>
      [] action = "Resize" -> <<Req("window.resize", serial, 0, 0, 0)>>
      [] action = "ShowMenu" -> <<Req("window.show_window_menu", serial, 0, 0, 0)>>
      [] OTHER -> <<>>

\* frame_click: `action' is what the frame's on_click resolves the click to.
FrameClick(action, serial) ==
    LET acts == shell = "Xdg" /\ IsSome(frame) /\ action # "None" IN
    /\ op' = "frame_click"
    /\ events' = <<>>
    \* inputs that cannot matter are taken once
    /\ (shell = "Xdg" /\ IsSome(frame)) \/ (action = "None" /\ serial = 1)
    /\ (acts /\ action = "Move") => unused_move_clicks < MaxMoveClicks
    /\ ret' = IF shell = "Xdg" /\ (~acts \/ action = "ResizeUnknownEdge")
              THEN "None" ELSE "Some(false)"
    /\ requests' = IF acts THEN FrameActionRequests(action, serial) ELSE <<>>
    /\ has_pending_move' = IF acts /\ action = "Move" THEN Some(serial)
                           ELSE has_pending_move
    /\ unused_move_clicks' = IF acts /\ action = "Move" THEN unused_move_clicks + 1
                             ELSE unused_move_clicks
    /\ UNCHANGED <<shell, hintVars, titleVars, fcbVars, imeVars, ptrVars, geoVars, xdgVars>>

\* The move decision of frame_point_moved: `cursor' is what the frame's
\* click_point_moved returns, `pending' the serial taken.
StartsMove(f, cursor, pending) == IsSome(f) /\ IsSome(cursor) /\ IsSome(pending)

\* A frame_point_moved that leaves the serial in place.
FramePointMoved_KeepsSerial(cursor) ==
    LET moves == shell = "Xdg" /\ StartsMove(frame, cursor, has_pending_move) IN
    /\ op' = "frame_point_moved"
    /\ events' = <<>>
    /\ (shell = "Xdg" /\ IsSome(frame)) \/ cursor = None
    /\ has_pending_move' = has_pending_move
    /\ requests' = IF moves
                   THEN <<Req("window.move_", Unwrap(has_pending_move), 0, 0, 0)>>
                   ELSE <<>>
    /\ unused_move_clicks' = IF moves THEN unused_move_clicks - 1 ELSE unused_move_clicks
    /\ ret' = IF shell = "Xdg" /\ IsSome(frame) /\ ~moves /\ IsSome(cursor)
              THEN "Some(cursor)" ELSE "None"
    /\ UNCHANGED <<shell, hintVars, titleVars, fcbVars, imeVars, ptrVars, geoVars, xdgVars>>

\* frame_point_moved
FramePointMoved(cursor) ==
    LET moves == shell = "Xdg" /\ StartsMove(frame, cursor, has_pending_move) IN
    /\ op' = "frame_point_moved"
    /\ events' = <<>>
    \* inputs that cannot matter are taken once
    /\ (shell = "Xdg" /\ IsSome(frame)) \/ cursor = None
    /\ has_pending_move' = IF shell = "Xdg" THEN None ELSE has_pending_move
    /\ requests' = IF moves
                   THEN <<Req("window.move_", Unwrap(has_pending_move), 0, 0, 0)>>
                   ELSE <<>>
    /\ unused_move_clicks' = IF moves THEN unused_move_clicks - 1 ELSE unused_move_clicks
    /\ ret' = IF shell = "Xdg" /\ IsSome(frame) /\ ~moves /\ IsSome(cursor)
              THEN "Some(cursor)" ELSE "None"
    /\ UNCHANGED <<shell, hintVars, titleVars, fcbVars, imeVars, ptrVars, geoVars, xdgVars>>

\* drag_window: the move the user starts, with the latest button serial of
\* each pointer.
DragWindow ==
    /\ op' = "drag_window"
    /\ events' = <<>>
    /\ ret' = "Ok"
    /\ requests' = IF shell = "Xdg"
                   THEN OnEach("xdg_toplevel._move", Upgraded(pointers, alive), 0)
                   ELSE <<>>
    /\ UNCHANGED <<shell, moveVars, hintVars, titleVars, fcbVars, imeVars, ptrVars, geoVars, xdgVars>>

\* The getters.
Resizable == IF shell = "Xdg" THEN resizable ELSE FALSE
IsDecorated ==
    IF shell = "Xdg"
    THEN IF IsSome(last_configure)
            /\ Unwrap(last_configure).decoration_mode = "Client" /\ IsSome(frame)
         THEN ~Unwrap(frame).hidden
         ELSE TRUE
    ELSE FALSE
IsMaximized ==
    IF shell = "Xdg" /\ IsSome(last_configure)
    THEN "MAXIMIZED" \in Unwrap(last_configure).state ELSE FALSE
IsFullscreen ==
    IF shell = "Xdg" /\ IsSome(last_configure)
    THEN "FULLSCREEN" \in Unwrap(last_configure).state ELSE FALSE
Theme == IF shell = "Xdg" THEN theme ELSE None
IsConfigured == IsSome(last_configure)
GetFrameCallbackState == IF shell = "Xdg" THEN frame_callback_state ELSE "None"

\* pointer_entered: register the pointer, reload the cursor style, re-apply
\* the grab the user asked for (its result is dropped).
PointerEntered(added) ==
    LET ps == Upgraded(Append(pointers, added), alive)
        grab == SetCursorGrabInner(user_grab_mode, current_grab_mode, ps,
                                   pointer_constraints)
    IN
    /\ Len(pointers) < MaxPointers
    /\ added \in alive
    /\ pointers' = Append(pointers, added)
    /\ current_grab_mode' = grab.current
    /\ requests' = ReloadCursorRequests(cursor_visible, selected_cursor, ps)
                    \o grab.requests
    /\ op' = "pointer_entered"
    /\ ret' = "unit"
    /\ events' = <<>>
    /\ told' = AfterRequests(told, requests')
    /\ shown_cursor' = CursorAfter(shown_cursor, requests')
    /\ UNCHANGED <<shell, moveVars, hintVars, geoVars, xdgVars, titleVars, fcbVars, imeVars, alive, pointer_constraints,
                   user_grab_mode, cursorVars>>

\* pointer_left: keep the live pointers other than `removed'.  The reference
\* `removed' is upgraded and unwrapped once for each live pointer of the list:
\* the call panics when `removed' is dead and the list holds a live pointer
\* (the unwinding drain leaves the list empty).
PointerLeft(removed) ==
    LET ps == Upgraded(pointers, alive) IN
    /\ op' = "pointer_left"
    /\ requests' = <<>>
    /\ IF ps # <<>> /\ removed \notin alive
       THEN /\ ret' = "panic"
            /\ pointers' = <<>>
       ELSE /\ ret' = "unit"
            /\ pointers' = Remove(ps, removed)
    /\ events' = <<>>
    /\ shown_cursor' = [p \in PointerIds |->
                            IF Contains(pointers', p) THEN shown_cursor[p] ELSE None]
    /\ UNCHANGED told
    /\ UNCHANGED <<shell, moveVars, hintVars, geoVars, xdgVars, titleVars, fcbVars, imeVars, alive, pointer_constraints,
                   grabVars, cursorVars>>

\* The seat drops a pointer: its weak references no longer upgrade.
PointerDropped(p) ==
    /\ p \in alive
    /\ alive' = alive \ {p}
    /\ op' = "pointer_dropped"
    /\ ret' = "unit"
    /\ requests' = <<>>
    /\ events' = <<>>
    /\ shown_cursor' = [shown_cursor EXCEPT ![p] = None]
    /\ UNCHANGED told
    /\ UNCHANGED <<shell, moveVars, hintVars, geoVars, xdgVars, titleVars, fcbVars, imeVars, pointers, pointer_constraints,
                   grabVars, cursorVars>>

\* A set_cursor_grab that records the user mode only when the grab succeeds.
SetCursorGrab_OnlyOnSuccess(mode) ==
    LET grab == SetCursorGrabInner(mode, current_grab_mode,
                                   Upgraded(pointers, alive), pointer_constraints)
    IN
    /\ user_grab_mode' = IF grab.ret = "Ok" THEN mode ELSE user_grab_mode
    /\ current_grab_mode' = grab.current
    /\ requests' = grab.requests
    /\ op' = "set_cursor_grab"
    /\ ret' = grab.ret
    /\ events' = <<>>
    /\ told' = AfterRequests(told, requests')
    /\ shown_cursor' = CursorAfter(shown_cursor, requests')
    /\ UNCHANGED <<shell, moveVars, hintVars, geoVars, xdgVars, titleVars, fcbVars, imeVars, pointers, alive,
                   pointer_constraints, cursorVars>>

\* set_cursor_grab
SetCursorGrab(mode) ==
    LET grab == SetCursorGrabInner(mode, current_grab_mode,
                                   Upgraded(pointers, alive), pointer_constraints)
    IN
    /\ user_grab_mode' = mode
    /\ current_grab_mode' = grab.current
    /\ requests' = grab.requests
    /\ op' = "set_cursor_grab"
    /\ ret' = grab.ret
    /\ events' = <<>>
    /\ told' = AfterRequests(told, requests')
    /\ shown_cursor' = CursorAfter(shown_cursor, requests')
    /\ UNCHANGED <<shell, moveVars, hintVars, geoVars, xdgVars, titleVars, fcbVars, imeVars, pointers, alive,
                   pointer_constraints, cursorVars>>

\* set_cursor_position
SetCursorPosition ==
    LET res == SetCursorPositionResult(pointer_constraints, current_grab_mode) IN
    /\ op' = "set_cursor_position"
    /\ ret' = res
    /\ requests' = IF res = "Ok"
                   THEN OnEach("set_locked_cursor_position",
                               Upgraded(pointers, alive), 0)
                   ELSE <<>>
    /\ events' = <<>>
    /\ UNCHANGED <<shell, moveVars, hintVars, geoVars, xdgVars, titleVars, fcbVars, imeVars, ptrVars>>

\* A set_cursor that applies the icon whether the cursor is visible or not.
SetCursor_IgnoresVisibility(icon) ==
    /\ selected_cursor' = Named(icon)
    /\ requests' = ShowCursorRequests(Named(icon), Upgraded(pointers, alive))
    /\ op' = "set_cursor"
    /\ ret' = "unit"
    /\ events' = <<>>
    /\ shown_cursor' = CursorAfter(shown_cursor, requests')
    /\ UNCHANGED told
    /\ UNCHANGED <<shell, moveVars, hintVars, geoVars, xdgVars, titleVars, fcbVars, imeVars, pointers, alive,
                   pointer_constraints, grabVars, cursor_visible>>

\* set_cursor
SetCursor(icon) ==
    /\ selected_cursor' = Named(icon)
    /\ requests' = IF cursor_visible
                   THEN ShowCursorRequests(Named(icon), Upgraded(pointers, alive))
                   ELSE <<>>
    /\ op' = "set_cursor"
    /\ ret' = "unit"
    /\ events' = <<>>
    /\ shown_cursor' = CursorAfter(shown_cursor, requests')
    /\ UNCHANGED told
    /\ UNCHANGED <<shell, moveVars, hintVars, geoVars, xdgVars, titleVars, fcbVars, imeVars, pointers, alive,
                   pointer_constraints, grabVars, cursor_visible>>

\* A set_custom_cursor that forgets the cursor when it cannot show it.
SetCustomCursor_DroppedWhenHidden(image) ==
    /\ selected_cursor' = IF cursor_visible THEN Custom(image) ELSE selected_cursor
    /\ requests' = IF cursor_visible
                   THEN ShowCursorRequests(Custom(image), Upgraded(pointers, alive))
                   ELSE <<>>
    /\ op' = "set_custom_cursor"
    /\ ret' = "unit"
    /\ events' = <<>>
    /\ shown_cursor' = CursorAfter(shown_cursor, requests')
    /\ UNCHANGED told
    /\ UNCHANGED <<shell, moveVars, hintVars, geoVars, xdgVars, titleVars, fcbVars, imeVars, pointers, alive,
                   pointer_constraints, grabVars, cursor_visible>>

\* set_custom_cursor
SetCustomCursor(image) ==
    /\ selected_cursor' = Custom(image)
    /\ requests' = IF cursor_visible
                   THEN ShowCursorRequests(Custom(image), Upgraded(pointers, alive))
                   ELSE <<>>
    /\ op' = "set_custom_cursor"
    /\ ret' = "unit"
    /\ events' = <<>>
    /\ shown_cursor' = CursorAfter(shown_cursor, requests')
    /\ UNCHANGED told
    /\ UNCHANGED <<shell, moveVars, hintVars, geoVars, xdgVars, titleVars, fcbVars, imeVars, pointers, alive,
                   pointer_constraints, grabVars, cursor_visible>>

\* set_cursor_visible
SetCursorVisible(visible) ==
    /\ cursor_visible' = visible
    /\ requests' = ReloadCursorRequests(visible, selected_cursor,
                                        Upgraded(pointers, alive))
    /\ op' = "set_cursor_visible"
    /\ ret' = "unit"
    /\ events' = <<>>
    /\ shown_cursor' = CursorAfter(shown_cursor, requests')
    /\ UNCHANGED told
    /\ UNCHANGED <<shell, moveVars, hintVars, geoVars, xdgVars, titleVars, fcbVars, imeVars, pointers, alive,
                   pointer_constraints, grabVars, selected_cursor>>

\* reload_cursor_style
ReloadCursorStyle ==
    /\ requests' = ReloadCursorRequests(cursor_visible, selected_cursor,
                                        Upgraded(pointers, alive))
    /\ op' = "reload_cursor_style"
    /\ ret' = "unit"
    /\ events' = <<>>
    /\ shown_cursor' = CursorAfter(shown_cursor, requests')
    /\ UNCHANGED <<shell, moveVars, hintVars, geoVars, xdgVars, titleVars, fcbVars, imeVars, pointers, alive,
                   told, pointer_constraints, grabVars, cursorVars>>

-----------------------------------------------------------------------------
(* Specifications.                                                         *)

\* Pointers, cursor and grab.  A panic ends the run.
Running == ret # "panic"

\* Either kind of window, with or without a pointer-constraints service; the
\* geometry is fixed where no method of the specification reads it.
InitFixedGeometry ==
    /\ InitCommon
    /\ theme = None
    /\ viewport
    /\ ~fractional_scale
    /\ Unwrap(initial_size) \in {Logical(MaxDim, 1)}

NextPointer ==
    \/ Running /\ \E p \in PointerIds : PointerEntered(p)
    \/ Running /\ \E p \in PointerIds : PointerLeft(p)
    \/ Running /\ \E p \in PointerIds : PointerDropped(p)
    \/ Running /\ \E m \in GrabModes : SetCursorGrab(m)
    \/ Running /\ SetCursorPosition
    \/ Running /\ \E i \in CursorIcons : SetCursor(i)
    \/ Running /\ \E c \in CustomImages : SetCustomCursor(c)
    \/ Running /\ \E v \in BOOLEAN : SetCursorVisible(v)
    \/ Running /\ ReloadCursorStyle
\* No pointer or cursor method reads the shell variant.
InitPointer == InitFixedGeometry /\ shell = "Xdg"
SpecPointer == InitPointer /\ [][NextPointer]_vars

\* Titles: any sequence of set_title calls.
NextTitle == \E t \in Titles : SetTitle(t)
InitTitle == InitFixedGeometry /\ pointer_constraints
SpecTitle == InitTitle /\ [][NextTitle]_vars

\* Frame callbacks and text inputs.
NextMisc ==
    \/ RequestFrameCallback
    \/ FrameCallbackReceived
    \/ FrameCallbackReset
    \/ \E t \in TextInputIds : TextInputEntered(t)
    \/ \E t \in TextInputIds : TextInputLeft(t)
    \/ \E a \in BOOLEAN : SetImeAllowed(a)
    \/ \E p \in Purposes : SetImePurpose(p)
SpecMisc == InitFixedGeometry /\ [][NextMisc]_vars

\* A top-level window: configures whose size is unset or one fixed size, with
\* up to two of the state flags other than FULLSCREEN and both decoration
\* modes.
InitXdg ==
    /\ InitCommon
    /\ theme = None
    /\ shell = "Xdg"
    /\ pointer_constraints
    /\ viewport
    /\ ~fractional_scale
    /\ Unwrap(initial_size) \in {Logical(MaxDim, 1)}
XdgConfigures ==
    [new_size : {<<0, 0>>, <<2, MaxDim>>},
     state : {f \in SUBSET (Flags \ {"FULLSCREEN"}) : Cardinality(f) <= 2},
     decoration_mode : {"Client", "Server"},
     suggested_bounds : {None}]
NextXdg ==
    \/ Running /\ \E c \in XdgConfigures : \E sub, created \in BOOLEAN :
                      ConfigureXdg(c, sub, created)
    \/ Running /\ \E c \in {[new_size |-> <<1, 1>>]} : ConfigureLayer(c)
    \/ Running /\ \E sz \in {Logical(1, 1), Logical(2, MaxDim)} : RequestInnerSize(sz)
SpecXdg == InitXdg /\ [][NextXdg]_vars

\* A top-level window, sizes.  The compositor either names both axes (around
\* the frame's borders, stateless or fullscreen, with or without suggested
\* bounds) or leaves the size to the client (stateless or maximized, with
\* several suggested bounds).  The frame is always created.
SizeConfigures ==
    [new_size : {<<1, MaxDim>>, <<MaxDim, 1>>, <<MaxDim, MaxDim>>},
     state : {{}, {"FULLSCREEN"}},
     decoration_mode : {"Client", "Server"},
     suggested_bounds : {None, Some(<<1, 2>>)}]
    \cup
    [new_size : {<<0, 0>>, <<0, MaxDim>>},
     state : {{}, {"MAXIMIZED"}},
     decoration_mode : {"Client", "Server"},
     suggested_bounds : {None, Some(<<1, 2>>), Some(<<2, 0>>)}]
NextXdgSize ==
    \/ Running /\ \E c \in SizeConfigures : ConfigureXdg(c, TRUE, TRUE)
    \/ Running /\ \E sz \in {Logical(2, 1), Logical(0, MaxDim)} : RequestInnerSize(sz)
    \/ Running /\ \E d \in BOOLEAN : SetDecorate(d)
SpecXdgSize == InitXdg /\ [][NextXdgSize]_vars

\* A window of either kind whose scale factor changes, before the first
\* configure too, built with a logical or a physical initial size.
InitSeed ==
    /\ InitCommon
    /\ theme = None
    /\ pointer_constraints
    /\ viewport
    /\ ~fractional_scale
    /\ Unwrap(initial_size) \in {Logical(MaxDim, 1), Physical(MaxDim, MaxDim)}
SeedConfigures ==
    [new_size : {<<0, 0>>, <<2, MaxDim>>},
     state : {{}, {"MAXIMIZED"}},
     decoration_mode : {"Client", "Server"},
     suggested_bounds : {None, Some(<<2, 0>>)}]
SeedSizes == {Logical(1, 1), Physical(MaxDim, 2)}
NextSeed ==
    \/ Running /\ \E s \in ScaleFactors : SetScaleFactor(s)
    \/ Running /\ \E c \in SeedConfigures : ConfigureXdg(c, TRUE, TRUE)
    \/ Running /\ \E c \in {[new_size |-> <<0, 2>>]} : ConfigureLayer(c)
    \/ Running /\ \E sz \in SeedSizes : RequestInnerSize(sz)
SpecSeed == InitSeed /\ [][NextSeed]_vars

\* A top-level window and its size hints: the hints are set, the window is
\* made resizable and not, a frame comes and goes and the size changes.
HintConfigures ==
    [new_size : {<<MaxDim, MaxDim>>},
     state : {{}},
     decoration_mode : {"Client", "Server"},
     suggested_bounds : {None}]
NextHints ==
    \/ Running /\ \E r \in BOOLEAN : SetResizable(r)
    \/ Running /\ \E sz \in {None, Some(<<1, 0>>), Some(<<MaxDim, MaxDim>>)} : SetMinInnerSize(sz)
    \/ Running /\ \E sz \in {None, Some(<<MaxDim, MaxDim>>)} : SetMaxInnerSize(sz)
    \/ Running /\ \E c \in HintConfigures : ConfigureXdg(c, TRUE, TRUE)
    \/ Running /\ \E sz \in {Logical(1, 1)} : RequestInnerSize(sz)
SpecHints == InitXdg /\ [][NextHints]_vars

\* Clicks and pointer motion on the decorations of a window whose frame
\* comes and goes.
FrameConfigures ==
    [new_size : {<<0, 0>>},
     state : {{}},
     decoration_mode : {"Client", "Server"},
     suggested_bounds : {None}]
NextFrame ==
    \/ Running /\ \E a \in FrameActions : \E s \in Serials : FrameClick(a, s)
    \/ Running /\ \E c \in {None, Some(0)} : FramePointMoved(c)
    \/ Running /\ DragWindow
    \/ Running /\ \E c \in FrameConfigures : ConfigureXdg(c, TRUE, TRUE)
    \/ Running /\ \E p \in {1} : PointerEntered(p)
InitFrame == InitFixedGeometry /\ pointer_constraints
SpecFrame == InitFrame /\ [][NextFrame]_vars

\* A window of either kind, with or without a viewport, that is resized by
\* configures, size requests and decoration changes.
InitResize ==
    /\ InitCommon
    /\ theme = None
    /\ pointer_constraints
    /\ ~fractional_scale
    /\ Unwrap(initial_size) \in {Logical(MaxDim, 1)}
ResizeConfigures ==
    [new_size : {<<0, 0>>, <<2, MaxDim>>},
     state : {{}, {"FULLSCREEN"}},
     decoration_mode : {"Client", "Server"},
     suggested_bounds : {None}]
ResizeSizes == {Logical(2, 1), Logical(2, MaxDim), Logical(0, MaxDim)}
NextResize ==
    \/ Running /\ \E c \in ResizeConfigures : ConfigureXdg(c, TRUE, TRUE)
    \/ Running /\ \E c \in {[new_size |-> <<0, 2>>], [new_size |-> <<2, 1>>]} : ConfigureLayer(c)
    \/ Running /\ \E sz \in ResizeSizes : RequestInnerSize(sz)
    \/ Running /\ \E d \in BOOLEAN : SetDecorate(d)
SpecResize == InitResize /\ [][NextResize]_vars

\* A top-level window that goes in and out of the maximized state while its
\* size is requested, its decorations are switched and it is made resizable
\* or not.
StatelessConfigures ==
    [new_size : {<<0, 0>>},
     state : {{}},
     decoration_mode : {"Client", "Server"},
     suggested_bounds : {None}]
    \cup
    [new_size : {<<2, MaxDim>>},
     state : {{"MAXIMIZED"}},
     decoration_mode : {"Client", "Server"},
     suggested_bounds : {None}]
NextStateless ==
    \/ Running /\ \E c \in StatelessConfigures : ConfigureXdg(c, TRUE, TRUE)
    \/ Running /\ \E sz \in {Logical(2, 1)} : RequestInnerSize(sz)
    \/ Running /\ \E d \in BOOLEAN : SetDecorate(d)
    \/ Running /\ \E r \in BOOLEAN : SetResizable(r)
SpecStateless == InitXdg /\ [][NextStateless]_vars

\* Pointers that enter, leave and are dropped while the cursor grab mode is
\* set, with and without a pointer-constraints service.
NextGrab ==
    \/ Running /\ \E p \in PointerIds : PointerEntered(p)
    \/ Running /\ \E p \in PointerIds : PointerLeft(p)
    \/ Running /\ \E p \in PointerIds : PointerDropped(p)
    \/ Running /\ \E m \in GrabModes : SetCursorGrab(m)
    \/ Running /\ SetCursorPosition
SpecGrab == InitFixedGeometry /\ [][NextGrab]_vars

\* A window of either kind whose size hints are set and reloaded while a
\* frame comes and goes.
InitReload ==
    /\ InitCommon
    /\ theme = None
    /\ pointer_constraints
    /\ viewport
    /\ ~fractional_scale
    /\ Unwrap(initial_size) \in {Logical(MaxDim, 1)}
NextReload ==
    \/ Running /\ ReloadMinMaxHints
    \/ Running /\ \E sz \in {None, Some(<<MaxDim, MaxDim>>)} : SetMinInnerSize(sz)
    \/ Running /\ \E sz \in {None, Some(<<MaxDim, MaxDim>>)} : SetMaxInnerSize(sz)
    \/ Running /\ \E c \in HintConfigures : ConfigureXdg(c, TRUE, TRUE)
    \/ Running /\ \E d \in BOOLEAN : SetDecorate(d)
SpecReload == InitReload /\ [][NextReload]_vars

\* A layer-overlay window.
InitLayer ==
    /\ InitCommon
    /\ shell = "WlrLayer"
    /\ pointer_constraints
    /\ ~fractional_scale
    /\ Unwrap(initial_size) \in {Logical(MaxDim, 1), Logical(0, 2)}
\* Top-level configures delivered to a layer window.
StrayConfigures ==
    [new_size : {<<0, 0>>, <<2, MaxDim>>},
     state : {{}, {"MAXIMIZED"}},
     decoration_mode : {"Client", "Server"},
     suggested_bounds : {None}]
NextLayer ==
    \/ Running /\ \E c \in LayerConfigures : ConfigureLayer(c)
    \/ Running /\ \E c \in StrayConfigures : ConfigureXdg(c, TRUE, TRUE)
    \/ Running /\ \E sz \in {Logical(2, 1), Logical(0, MaxDim)} : RequestInnerSize(sz)
    \/ Running /\ \E d \in BOOLEAN : SetDecorate(d)
    \/ Running /\ \E r \in BOOLEAN : SetResizable(r)
    \/ Running /\ \E sz \in HintSizes : SetMinInnerSize(sz)
    \/ Running /\ \E sz \in HintSizes : SetMaxInnerSize(sz)
    \/ Running /\ \E t \in ThemeOptions : SetTheme(t)
    \/ Running /\ RequestFrameCallback
    \/ Running /\ FrameCallbackReceived
    \/ Running /\ FrameCallbackReset
SpecLayer == InitLayer /\ [][NextLayer]_vars

-----------------------------------------------------------------------------
(* Properties.                                                             *)

ConstraintRequests == {"lock_pointer", "confine_pointer", "unlock_pointer",
                       "unconfine_pointer"}
ReleaseName(mode) == IF mode = "Confined" THEN "unconfine_pointer" ELSE "unlock_pointer"
LiveRegistered == {pointers[i] : i \in DOMAIN pointers} \cap alive

\* C5: without a pointer-constraints service set_cursor_grab(Locked) and
\* set_cursor_grab(Confined) return NotSupported and set_cursor_grab(None)
\* returns Ok; the applied grab mode stays None and no lock, confine, unlock or
\* unconfine call is made on any pointer.
C5_NoServiceGrab ==
    ~pointer_constraints =>
        /\ current_grab_mode = "None"
        /\ ReqNames(requests) \cap ConstraintRequests = {}
        /\ op = "set_cursor_grab" =>
              ret = IF user_grab_mode = "None" THEN "Ok" ELSE "NotSupported"

C5_Witness ==
    /\ ~pointer_constraints
    /\ op = "set_cursor_grab"
    /\ user_grab_mode = "Locked"
    /\ ret = "NotSupported"
    /\ LiveRegistered # {}

\* C6: with a pointer-constraints service, a grab reconciliation
\* (set_cursor_grab, pointer_entered) makes on every live registered pointer
\* the release call matching the previously applied mode, and every release
\* call precedes every lock or confine call of the new mode.
C6_ReleaseBeforeApply ==
    [][ (pointer_constraints /\ op' \in {"set_cursor_grab", "pointer_entered"}) =>
          LET old == current_grab_mode
              rs == requests'
              live == {pointers'[i] : i \in DOMAIN pointers'} \cap alive'
              applies == {i \in DOMAIN rs : rs[i][1] \in {"lock_pointer", "confine_pointer"}}
              releases == {i \in DOMAIN rs : rs[i][1] \in {"unlock_pointer", "unconfine_pointer"}}
          IN  /\ \A i \in applies : \A j \in releases : j < i
              /\ old # "None" =>
                   /\ \A p \in live : \E j \in releases :
                          rs[j] = Req(ReleaseName(old), p, 0, 0, 0)
                   /\ \A i \in applies : \E j \in releases :
                          /\ j < i
                          /\ rs[j] = Req(ReleaseName(old), rs[i][2], 0, 0, 0)
              /\ \A j \in releases : old # "None" /\ rs[j][1] = ReleaseName(old)
      ]_vars

C6_Witness ==
    /\ pointer_constraints
    /\ op = "set_cursor_grab"
    /\ current_grab_mode = "Locked"
    /\ Cardinality(LiveRegistered) = 2
    /\ \E i, j \in DOMAIN requests :
          /\ i < j
          /\ requests[i][1] = "unconfine_pointer"
          /\ requests[j][1] = "lock_pointer"

\* C7 as stated: set_cursor_position returns Ok iff the applied grab mode is
\* Locked, and otherwise fails with the OS-level error, making no call.
C7_Original ==
    op = "set_cursor_position" =>
        /\ ret = "Ok" <=> current_grab_mode = "Locked"
        /\ ret # "Ok" => ret = "Os" /\ requests = <<>>

\* C7, amended: set_cursor_position returns Ok iff the applied grab mode is
\* Locked; otherwise it makes no call on any pointer and fails, with
\* NotSupported when the window has no pointer-constraints service and with the
\* OS-level error when it has one.
C7_SetCursorPosition ==
    op = "set_cursor_position" =>
        /\ ret = "Ok" <=> current_grab_mode = "Locked"
        /\ ret # "Ok" =>
              /\ requests = <<>>
              /\ ret = IF pointer_constraints THEN "Os" ELSE "NotSupported"

C7_Witness ==
    /\ op = "set_cursor_position"
    /\ pointer_constraints
    /\ current_grab_mode = "Confined"
    /\ ret = "Os"
    /\ LiveRegistered # {}

\* The prefixes of t that end on a character boundary.
CharPrefixes(t) ==
    {[pad |-> n, tail |-> <<>>] : n \in 0..t.pad}
        \cup {[pad |-> t.pad, tail |-> Prefix(t.tail, k)] : k \in 0..Len(t.tail)}

\* C9: after set_title(t) the stored title is the longest prefix of t that
\* ends on a character boundary and is at most 1024 bytes long (t itself when
\* t is at most 1024 bytes long).
C9_TitleTruncated ==
    op = "set_title" =>
        /\ title \in CharPrefixes(title_arg)
        /\ StrLen(title) <= TitleLimit
        /\ \A q \in CharPrefixes(title_arg) :
              StrLen(q) <= TitleLimit => StrLen(q) <= StrLen(title)
        /\ StrLen(title_arg) <= TitleLimit => title = title_arg

\* A multi-byte character straddles byte 1024 and is cut off whole.
C9_Witness ==
    /\ op = "set_title"
    /\ StrLen(title_arg) > TitleLimit
    /\ title_arg.pad < TitleLimit
    /\ ~IsCharBoundary(title_arg, TitleLimit)
    /\ StrLen(title) < TitleLimit
    /\ title.tail # <<>>

\* C10: the number of frame callbacks requested from the compositor and not
\* yet answered by a done notification never exceeds one.
C10_AtMostOneOutstanding == outstanding <= 1

-----------------------------------------------------------------------------
(* Properties of configure_xdg and configure_layer.                        *)

Suspended(last) == IF IsSome(last) THEN "SUSPENDED" \in Unwrap(last).state ELSE FALSE
ResizeFlags(c) == c.state \ {"ACTIVATED", "SUSPENDED"}
CreationCalls(rs) == {i \in DOMAIN rs : rs[i][1] = "WinitFrame::new"}

\* C1: on a top-level window a configure_xdg pushes exactly one Occluded(b),
\* b its SUSPENDED flag, iff b differs from the SUSPENDED flag of the stored
\* configure (false when there is none), and pushes nothing otherwise; no
\* other method pushes an event.
C1_OccludedOnChange ==
    [][ IF op' = "configure_xdg"
        THEN LET b == Suspended(last_configure')
             IN  events' = IF b # Suspended(last_configure)
                           THEN <<Occluded(b)>> ELSE <<>>
        ELSE events' = <<>>
      ]_vars

C1_Witness ==
    /\ op = "configure_xdg"
    /\ events = <<Occluded(FALSE)>>
    /\ ~Suspended(last_configure)

\* C2: of two consecutive configure_xdg calls on a top-level window, when
\* both carry the same state flags apart from ACTIVATED and SUSPENDED and the
\* size the second computes equals the size stored after the first, the second
\* returns false and makes none of the calls of resize.
C2_SecondConfigureNoRedraw ==
    [][ ( /\ op = "configure_xdg"
          /\ op' = "configure_xdg"
          /\ IsSome(last_configure)
          /\ ResizeFlags(Unwrap(last_configure)) = ResizeFlags(Unwrap(last_configure'))
          /\ size' = size )
        => (ret' = "false" /\ CreationCalls(requests') = DOMAIN requests')
      ]_vars

\* The second configure differs in ACTIVATED and SUSPENDED only.
C2_Witness ==
    /\ op = "configure_xdg"
    /\ ret = "false"
    /\ requests = <<>>
    /\ events = <<Occluded(TRUE)>>
    /\ "ACTIVATED" \in Unwrap(last_configure).state

\* C3: for a configure_xdg with both width and height set the computed inner
\* size is, with a frame (after the create / drop step), the proposed size
\* minus the frame's borders, an axis below 1 replaced by 1, and without a
\* frame the proposed size; bounds, stored size and stateless size play no part.
C3_SizedConfigure ==
    (op = "configure_xdg" /\ IsSome(last_configure)) =>
        LET w == Unwrap(last_configure).new_size[1]
            h == Unwrap(last_configure).new_size[2]
        IN  (w # 0 /\ h # 0) =>
                size = IF IsSome(frame)
                       THEN <<Max(1, w - FrameBorders(Unwrap(frame)).w),
                              Max(1, h - FrameBorders(Unwrap(frame)).h)>>
                       ELSE <<w, h>>

\* A shown frame, a width eaten by the border, a height above the bound.
C3_Witness ==
    /\ op = "configure_xdg"
    /\ IsSome(frame)
    /\ FrameBorders(Unwrap(frame)) = Borders
    /\ Unwrap(last_configure).new_size = <<1, MaxDim>>
    /\ Unwrap(last_configure).suggested_bounds = Some(<<1, 2>>)
    /\ size = <<1, MaxDim - Borders.h>>

\* C4: configure_layer with proposed size (w, h) on a layer window of size
\* (pw, ph) leaves the size (w if w # 0 else pw, h if h # 0 else ph).
C4_LayerZeroKeeps ==
    [][ (shell = "WlrLayer" /\ op' = "configure_layer") =>
          LET n == Unwrap(last_configure').new_size
          IN  size' = <<IF n[1] # 0 THEN n[1] ELSE size[1],
                        IF n[2] # 0 THEN n[2] ELSE size[2]>>
      ]_vars

C4_Witness ==
    /\ shell = "WlrLayer"
    /\ op = "configure_layer"
    /\ Unwrap(last_configure).new_size = <<0, 2>>
    /\ size = <<MaxDim, 2>>

\* C8: WinitFrame::new is called only by a configure_xdg whose decoration mode
\* is Client, with no frame and csd_fails false; a failed call sets csd_fails;
\* once csd_fails is true it stays true and no method calls WinitFrame::new.
C8_StickyCreationFailure ==
    [][ LET calls == CreationCalls(requests')
        IN  /\ Cardinality(calls) <= 1
            /\ calls # {} =>
                  /\ op' = "configure_xdg"
                  /\ Unwrap(last_configure').decoration_mode = "Client"
                  /\ frame = None
                  /\ ~csd_fails
                  /\ csd_fails' <=> requests'[1][2] = 0
            /\ csd_fails => (csd_fails' /\ calls = {})
      ]_vars

\* A Client configure after the failure, no frame, and no creation call.
C8_Witness ==
    /\ csd_fails
    /\ op = "configure_xdg"
    /\ Unwrap(last_configure).decoration_mode = "Client"
    /\ frame = None
    /\ CreationCalls(requests) = {}

-----------------------------------------------------------------------------
(* Properties of the frame callback state.                                 *)

\* C11 as stated: every change of frame_callback_state is None->Requested,
\* Requested->Received or Received->None.
C11_Original ==
    [][ frame_callback_state' # frame_callback_state =>
          <<frame_callback_state, frame_callback_state'>> \in
              {<<"None", "Requested">>, <<"Requested", "Received">>,
               <<"Received", "None">>}
      ]_vars

\* C11, amended: every change of frame_callback_state is made by
\* request_frame_callback from None or Received to Requested, by
\* frame_callback_received from None or Requested to Received, or by
\* frame_callback_reset from Requested or Received to None.
C11_FrameCallbackTransitions ==
    [][ frame_callback_state' # frame_callback_state =>
          \/ /\ op' = "request_frame_callback"
             /\ frame_callback_state \in {"None", "Received"}
             /\ frame_callback_state' = "Requested"
          \/ /\ op' = "frame_callback_received"
             /\ frame_callback_state' = "Received"
          \/ /\ op' = "frame_callback_reset"
             /\ frame_callback_state' = "None"
      ]_vars

\* A second request while the first is unanswered: the state has left the
\* linear cycle on the way.
C11_Witness ==
    /\ shell = "Xdg"
    /\ op = "request_frame_callback"
    /\ frame_callback_state = "Requested"
    /\ outstanding = 2

-----------------------------------------------------------------------------
(* Properties of the stateless size.                                       *)

Configure == Unwrap(last_configure)
Unsized(c) == c.new_size[1] = 0 \/ c.new_size[2] = 0
\* No bound of the pair b (0: no bound on the axis) is below the size sz.
NotBelow(b, sz) == (b[1] = 0 \/ b[1] >= sz[1]) /\ (b[2] = 0 \/ b[2] >= sz[2])

\* The steps that keep the stateless size: a configure that is not stateless,
\* and request_inner_size or set_decorate after such a configure.
KeepsStatelessSize ==
    /\ IsSome(last_configure')
    /\ ~IsStateless(Unwrap(last_configure'))
    /\ op' \in {"configure_xdg", "request_inner_size", "set_decorate"}

\* C12 as stated: after a stateless configure the stateless size is the inner
\* size, no step made while the window is not stateless changes it, and a
\* stateless configure with the size unset whose suggested bounds are not
\* below it sets the inner size to it.
C12_Original ==
    [][ /\ (op' = "configure_xdg" /\ IsStateless(Unwrap(last_configure')) /\ ret' # "panic")
            => stateless_size' = size'
        /\ KeepsStatelessSize => stateless_size' = stateless_size
        /\ ( /\ op' = "configure_xdg"
             /\ ret' # "panic"
             /\ IsStateless(Unwrap(last_configure'))
             /\ Unsized(Unwrap(last_configure'))
             /\ LET b == Unwrap(last_configure').suggested_bounds
                IN  IsSome(b) => NotBelow(Unwrap(b), stateless_size) )
            => size' = stateless_size
      ]_vars

\* C12, amended: the same, for suggested bounds that are not below the
\* stateless size once the borders of the frame are taken off them.
C12_StatelessRestored ==
    [][ /\ (op' = "configure_xdg" /\ IsStateless(Unwrap(last_configure')) /\ ret' # "panic")
            => stateless_size' = size'
        /\ KeepsStatelessSize => stateless_size' = stateless_size
        /\ ( /\ op' = "configure_xdg"
             /\ ret' # "panic"
             /\ IsStateless(Unwrap(last_configure'))
             /\ Unsized(Unwrap(last_configure'))
             /\ NotBelow(InnerSizeBounds(frame', Unwrap(last_configure')), stateless_size) )
            => size' = stateless_size
      ]_vars

\* A stateless configure without a size that resized to (2, 2): the window
\* was not stateless before it, and (2, 2) is the size it had when it last was.
C12_Witness ==
    /\ op = "configure_xdg"
    /\ ret = "true"
    /\ Configure.state = {}
    /\ Configure.new_size = <<0, 0>>
    /\ size = <<2, 2>>
    /\ stateless_size = <<2, 2>>

-----------------------------------------------------------------------------
(* Properties of the decoration frame.                                     *)

\* C13: after a configure_xdg whose decoration mode is Server the top-level
\* window has no frame; a frame appears only in a configure_xdg whose
\* decoration mode is Client, made while csd_fails is false.
C13_ServerDropsFrame ==
    [][ /\ (shell = "Xdg" /\ op' = "configure_xdg"
                /\ Unwrap(last_configure').decoration_mode = "Server")
            => frame' = None
        /\ (frame = None /\ frame' # None)
            => /\ op' = "configure_xdg"
               /\ Unwrap(last_configure').decoration_mode = "Client"
               /\ ~csd_fails
               /\ ~csd_fails'
      ]_vars

\* A Server configure on a window whose size was computed with a frame's
\* borders taken off: the frame that existed is gone.
C13_Witness ==
    /\ op = "configure_xdg"
    /\ Configure.decoration_mode = "Server"
    /\ Configure.new_size = <<0, 0>>
    /\ frame = None
    /\ size = <<2 - Borders.w, MaxDim - Borders.h>>

-----------------------------------------------------------------------------
(* Properties of the pointer constraints.                                  *)

ConstraintFor(mode) ==
    CASE mode = "Locked" -> {"lock"}
      [] mode = "Confined" -> {"confine"}
      [] mode = "None" -> {}

\* C14: in every state each live pointer of the window's pointer list holds
\* exactly the constraint of the applied grab mode: none for None, a lock for
\* Locked, a confinement for Confined.
C14_PointersHoldAppliedMode ==
    \A p \in LiveRegistered : told[p] = ConstraintFor(current_grab_mode)

-----------------------------------------------------------------------------
(* Properties of configure_layer and of the resize decision.               *)

\* C15: every configure_layer on a layer window stores the configure as the
\* last configure, resizes (set_size on the layer surface and, when the window
\* has a viewport, its destination, both with the new size) and returns true.
C15_LayerAlwaysResizes ==
    [][ \A c \in LayerConfigures :
          (shell = "WlrLayer" /\ ConfigureLayer(c)) =>
              /\ ret' = "true"
              /\ last_configure' = Some(c)
              /\ \E i \in DOMAIN requests' :
                    requests'[i] = Req("layer.set_size", size'[1], size'[2], 0, 0)
              /\ viewport =>
                    \E i \in DOMAIN requests' :
                       requests'[i] = Req("viewport.set_destination",
                                          size'[1], size'[2], 0, 0)
      ]_vars

\* A (0, 0) configure right after another configure: the size is the same
\* and the calls are made again.
C15_Witness ==
    /\ shell = "WlrLayer"
    /\ viewport
    /\ op = "configure_layer"
    /\ ret = "true"
    /\ Configure.new_size = <<0, 0>>
    /\ size = <<MaxDim, 1>>
    /\ ReqNames(requests) = {"set_opaque_region", "layer.set_size", "viewport.set_destination"}

\* The calls of resize on a top-level window are in rs.
Resized(rs) == "set_window_geometry" \in ReqNames(rs)

-----------------------------------------------------------------------------
(* Properties of the suggested bounds.                                     *)

\* The borders of the frame f (none without a frame) on axis i.
BorderOn(f, i) ==
    IF IsSome(f)
    THEN IF i = 1 THEN FrameBorders(Unwrap(f)).w ELSE FrameBorders(Unwrap(f)).h
    ELSE 0

\* The value `base' of axis i under the suggested bounds of c and the frame f.
Bounded(base, c, f, i) ==
    LET b == IF IsSome(c.suggested_bounds) THEN Unwrap(c.suggested_bounds)[i] ELSE 0
    IN  IF b # 0 /\ b - BorderOn(f, i) > 0
        THEN Min(base, b - BorderOn(f, i))
        ELSE base

\* C17: a configure_xdg that does not give both width and height computes,
\* on each axis, the stateless size (stateless configure) or the stored size
\* (otherwise), lowered to the suggested bound of the axis less the frame's
\* border when that bound is present, not zero and positive after the border
\* is taken off.
C17_BoundsWhenUnsized ==
    [][ ( /\ shell = "Xdg"
          /\ op' = "configure_xdg"
          /\ ret' # "panic"
          /\ Unsized(Unwrap(last_configure')) ) =>
          LET c == Unwrap(last_configure')
              seeded == IF IsSome(initial_size)
                        THEN ToLogical(Unwrap(initial_size), scale_factor)
                        ELSE IF IsStateless(c) THEN stateless_size ELSE size
          IN  size' = <<Bounded(seeded[1], c, frame', 1), Bounded(seeded[2], c, frame', 2)>>
      ]_vars

\* A maximized configure without a size, under a shown frame, with bounds
\* (1, 2): the width bound vanishes with the border and the height is lowered.
C17_Witness ==
    /\ op = "configure_xdg"
    /\ ret = "true"
    /\ Configure.state = {"MAXIMIZED"}
    /\ Unsized(Configure)
    /\ Configure.suggested_bounds = Some(<<1, 2>>)
    /\ IsSome(frame)
    /\ ~Unwrap(frame).hidden
    /\ size = <<2, 2 - Borders.h>>

-----------------------------------------------------------------------------
(* Properties of the input method.                                         *)

\* C18: set_ime_allowed(a) returns true iff the window has a text input at
\* the call; it enables (a true) or disables (a false) each of them and then
\* commits it, touches no other text input, and stores a in ime_allowed
\* whatever it returns.
C18_SetImeAllowed ==
    [][ \A a \in BOOLEAN :
          SetImeAllowed(a) =>
              /\ ime_allowed' = a
              /\ ret' = IF text_inputs # <<>> THEN "true" ELSE "false"
              /\ \A i \in DOMAIN text_inputs :
                    \E j, k \in DOMAIN requests' :
                       /\ j < k
                       /\ requests'[j] = Req(IF a THEN "text_input.enable"
                                             ELSE "text_input.disable",
                                             text_inputs[i], 0, 0, 0)
                       /\ requests'[k] = Req("text_input.commit", text_inputs[i], 0, 0, 0)
              /\ \A j \in DOMAIN requests' :
                    /\ requests'[j][1] # (IF a THEN "text_input.disable"
                                          ELSE "text_input.enable")
                    /\ Contains(text_inputs, requests'[j][2])
      ]_vars

\* The flag is stored by a call that found no text input and returned false.
C18_Witness ==
    /\ op = "set_ime_allowed"
    /\ ret = "false"
    /\ text_inputs = <<>>
    /\ ime_allowed

-----------------------------------------------------------------------------
(* Properties of dead pointers.                                            *)

PointerMethods == {"pointer_entered", "pointer_left", "set_cursor_grab",
                   "set_cursor_position", "set_cursor", "set_custom_cursor",
                   "set_cursor_visible", "reload_cursor_style"}

\* C19: no method that touches the pointers fails because a pointer is dead:
\* each of them returns, whatever pointers are dead, the one given to
\* pointer_left included.
C19_DeadPointersSkipped == op \in PointerMethods => ret # "panic"

-----------------------------------------------------------------------------
(* Properties of the layer window.                                         *)

LayerNoOps == {"set_decorate", "set_resizable", "set_min_inner_size",
               "set_max_inner_size", "set_theme", "request_frame_callback",
               "frame_callback_received", "frame_callback_reset"}
Fields == <<shell, titleVars, fcbVars, imeVars, ptrVars, geoVars, xdgVars, hintVars,
           has_pending_move>>

\* C20: on a layer window set_decorate, set_resizable, set_min_inner_size,
\* set_max_inner_size, set_theme, request_frame_callback,
\* frame_callback_received and frame_callback_reset change no field and make
\* no call, and in every state resizable(), is_decorated(), is_maximized()
\* and is_fullscreen() are false and theme() and frame_callback_state() None.
C20_LayerNoOps ==
    /\ [](shell = "WlrLayer" =>
            /\ ~Resizable /\ ~IsDecorated /\ ~IsMaximized /\ ~IsFullscreen
            /\ Theme = None
            /\ GetFrameCallbackState = "None")
    /\ [][ (shell = "WlrLayer" /\ op' \in LayerNoOps) =>
              (Fields' = Fields /\ requests' = <<>>) ]_vars

\* set_theme(Some(..)) on a configured layer window that was built with a theme.
C20_Witness ==
    /\ shell = "WlrLayer"
    /\ op = "set_theme"
    /\ IsSome(last_configure)
    /\ theme = Some("Dark")
    /\ requests = <<>>

-----------------------------------------------------------------------------
(* Properties of a failed frame creation.                                  *)

\* The first call of rs is a WinitFrame::new that failed.
CreationFailed(rs) == rs # <<>> /\ rs[1] = Req("WinitFrame::new", 0, 0, 0, 0)

\* C21: a configure_xdg whose WinitFrame::new fails sets csd_fails, leaves the
\* window without a frame, pushes the Occluded event exactly when the
\* SUSPENDED flag changes, computes the size without taking borders off (the
\* proposed size when both axes are set, else the stateless or stored size
\* under the suggested bounds as they come), stores the configure and returns
\* true with a resize when the resize is forced or the size changes and false
\* without one otherwise; it never fails.
C21_CreationFailureAbsorbed ==
    [][ (op' = "configure_xdg" /\ CreationFailed(requests')) =>
          LET c == Unwrap(last_configure')
              before == IF IsSome(initial_size)
                        THEN ToLogical(Unwrap(initial_size), scale_factor) ELSE size
              fallback == IF IsSome(initial_size) THEN before
                          ELSE IF IsStateless(c) THEN stateless_size ELSE size
              forced == \/ last_configure = None
                        \/ ResizeFlags(Unwrap(last_configure)) # ResizeFlags(c)
          IN  /\ csd_fails'
              /\ frame' = None
              /\ IsSome(last_configure')
              /\ events' = IF Suspended(last_configure') # Suspended(last_configure)
                           THEN <<Occluded(Suspended(last_configure'))>> ELSE <<>>
              /\ size' = IF Unsized(c)
                         THEN <<Bounded(fallback[1], c, None, 1),
                                Bounded(fallback[2], c, None, 2)>>
                         ELSE c.new_size
              /\ ret' \in {"true", "false"}
              /\ (ret' = "true") <=> (forced \/ size' # before)
              /\ Resized(requests') <=> (ret' = "true")
      ]_vars

\* A first configure, suspended, with both axes set: the frame cannot be
\* created, and the window takes the proposed size whole.
C21_Witness ==
    /\ op = "configure_xdg"
    /\ CreationFailed(requests)
    /\ csd_fails
    /\ frame = None
    /\ events = <<Occluded(TRUE)>>
    /\ size = <<2, MaxDim>>
    /\ ret = "true"

-----------------------------------------------------------------------------
(* Properties of the hidden cursor.                                        *)

CursorImageRequests == {"themed_pointer.set_cursor", "wl_pointer.set_cursor",
                        "cursor_surface.attach", "cursor_surface.commit"}

\* C22: while cursor_visible is false every live pointer of the pointer list
\* shows the empty cursor, and no method that leaves the cursor hidden gives
\* any pointer a named or custom cursor.
C22_HiddenStaysHidden ==
    /\ [](~cursor_visible => \A p \in LiveRegistered : shown_cursor[p] = Some(Empty))
    /\ [][ ~cursor_visible' => ReqNames(requests') \cap CursorImageRequests = {} ]_vars

\* Two pointers entered while the cursor was hidden, a custom cursor selected.
C22_Witness ==
    /\ ~cursor_visible
    /\ op = "pointer_entered"
    /\ selected_cursor = Custom(0)
    /\ Cardinality(LiveRegistered) = 2
    /\ \A p \in LiveRegistered : shown_cursor[p] = Some(Empty)

-----------------------------------------------------------------------------
(* Properties of the order of store and resize.                            *)

\* C23: a configure_xdg that resizes does so with the new configure stored:
\* it leaves the stateless size equal to the new size when the new configure
\* is stateless and as it was (after the seeding from the initial size) when
\* the new configure is maximized, fullscreen or tiled, whatever the configure
\* stored before it was.
C23_ResizeSeesNewConfigure ==
    [][ (shell = "Xdg" /\ op' = "configure_xdg" /\ ret' \in {"true", "panic"}) =>
          LET seeded == IF IsSome(initial_size)
                        THEN ToLogical(Unwrap(initial_size), scale_factor)
                        ELSE stateless_size
          IN  /\ IsSome(last_configure')
              /\ stateless_size' = IF IsStateless(Unwrap(last_configure'))
                                   THEN size' ELSE seeded
      ]_vars

\* A maximized configure with a size, after a stateless one under which the
\* window was resized to (1, 1): the stateless size is still (1, 1).
C23_Witness ==
    /\ op = "configure_xdg"
    /\ ret = "true"
    /\ "MAXIMIZED" \in Configure.state
    /\ size = <<2, MaxDim>>
    /\ stateless_size = <<1, 1>>

-----------------------------------------------------------------------------
(* Properties of the initial size.                                         *)

\* C24: the initial size is pending exactly until the first configure_xdg.
\* That call clears it and computes the new size from a size and a stateless
\* size both set to the initial size at the scale factor of the moment; a
\* later configure_xdg computes from the stored size and stateless size.
\* Nothing else touches the pending value.
C24_InitialSizeOnce ==
    [][ /\ initial_size' # initial_size => op' = "configure_xdg"
        /\ (shell = "Xdg" /\ op' = "configure_xdg") =>
             LET c == Unwrap(last_configure')
                 seed == ToLogical(Unwrap(initial_size), scale_factor)
                 size0 == IF IsSome(initial_size) THEN seed ELSE size
                 stateless0 == IF IsSome(initial_size) THEN seed ELSE stateless_size
                 base == IF IsStateless(c) THEN stateless0 ELSE size0
             IN  /\ initial_size' = None
                 /\ IsSome(initial_size) <=> last_configure = None
                 /\ Unsized(c) => size' = <<Bounded(base[1], c, frame', 1),
                                            Bounded(base[2], c, frame', 2)>>
                 /\ stateless_size' = IF IsStateless(c) /\ ret' = "true"
                                      THEN size' ELSE stateless0
      ]_vars

\* A first configure, maximized and without a size, on a window built with the
\* physical size (MaxDim, MaxDim) whose scale factor was 2 when it came.
C24_Witness ==
    /\ op = "configure_xdg"
    /\ initial_size = None
    /\ scale_factor = 2
    /\ Configure.state = {"MAXIMIZED"}
    /\ Configure.new_size = <<0, 0>>
    /\ size = <<2, 2>>
    /\ stateless_size = <<2, 2>>

-----------------------------------------------------------------------------
(* Properties of request_inner_size.                                       *)

\* C25: request_inner_size(s) on a top-level window resizes to s (at the
\* current scale factor) when no configure is stored or the stored configure
\* is stateless; when the stored configure is maximized, fullscreen or tiled it
\* changes no field, makes no call and returns.  On a layer window it always
\* resizes to s.
C25_RequestInnerSize ==
    [][ \A sz \in SeedSizes :
          RequestInnerSize(sz) =>
              LET want == ToLogical(sz, scale_factor)
                  allowed == \/ shell = "WlrLayer"
                             \/ last_configure = None
                             \/ IsStateless(Unwrap(last_configure))
              IN  /\ allowed =>
                        /\ size' = want
                        /\ ret' = "size" =>
                              ReqNames(requests') \cap {"set_window_geometry", "layer.set_size"}
                                  = {IF shell = "Xdg" THEN "set_window_geometry"
                                     ELSE "layer.set_size"}
                  /\ ~allowed =>
                        /\ Fields' = Fields
                        /\ requests' = <<>>
                        /\ ret' = "size"
      ]_vars

\* A request on a maximized window of size (2, MaxDim): nothing is done.
C25_Witness ==
    /\ shell = "Xdg"
    /\ op = "request_inner_size"
    /\ IsSome(last_configure)
    /\ "MAXIMIZED" \in Configure.state
    /\ size = <<2, MaxDim>>
    /\ requests = <<>>
    /\ ret = "size"

-----------------------------------------------------------------------------
(* Properties of the size hints.                                           *)

\* C26: set_resizable(false) followed by set_resizable(true) on a top-level
\* window leaves the stored minimum and maximum hints, and the values sent to
\* the compositor, equal to the hints stored before the set_resizable(false).
C26_ResizableRestoresHints ==
    [][ ( /\ shell = "Xdg"
          /\ op = "set_resizable" /\ ~resizable /\ requests # <<>>
          /\ op' = "set_resizable" /\ resizable' ) =>
            /\ min_inner_size' = hints_at_pin[1]
            /\ max_inner_size' = hints_at_pin[2]
            /\ requests'[1] = SetMinSizeRequest(hints_at_pin[1])
            /\ requests'[2] = SetMaxSizeRequest(hints_at_pin[2])
      ]_vars

\* C27: on a top-level window the stored minimum size is never below
\* MIN_WINDOW_SIZE on either axis, and every minimum size sent to the
\* compositor is the stored one.
C27_MinSizeFloor ==
    /\ [](shell = "Xdg" =>
            /\ min_inner_size[1] >= MIN_WINDOW_SIZE[1]
            /\ min_inner_size[2] >= MIN_WINDOW_SIZE[2])
    /\ [][ \A i \in DOMAIN requests' :
              requests'[i][1] = "window.set_min_size" =>
                  requests'[i] = SetMinSizeRequest(min_inner_size') ]_vars

\* set_resizable(false) on a window of size (1, 1) without a frame: the
\* minimum stored is the floor, not the size.
C27_Witness ==
    /\ shell = "Xdg"
    /\ op = "set_resizable"
    /\ ~resizable
    /\ size = <<1, 1>>
    /\ frame = None
    /\ min_inner_size = MIN_WINDOW_SIZE
    /\ requests[1] = SetMinSizeRequest(MIN_WINDOW_SIZE)

-----------------------------------------------------------------------------
(* Properties of the pending move.                                         *)

MoveRequested(rs) == "window.move_" \in ReqNames(rs)

-----------------------------------------------------------------------------
(* Properties of is_configured.                                            *)

OwnConfigure == IF shell = "Xdg" THEN "configure_xdg" ELSE "configure_layer"

\* C29: is_configured() is false at construction, becomes true in the first
\* configure of the window's own shell variant (configure_xdg on a top-level
\* window, configure_layer on a layer window) and in no other call, and is
\* never false again.
C29_ConfiguredForGood ==
    /\ ~IsConfigured
    /\ [][ /\ IsConfigured => IsConfigured'
           /\ op' = OwnConfigure => IsConfigured'
           /\ (~IsConfigured /\ IsConfigured') => op' = OwnConfigure
         ]_vars

\* A top-level configure delivered to a configured layer window.
C29_Witness ==
    /\ shell = "WlrLayer"
    /\ op = "configure_xdg"
    /\ IsConfigured
    /\ Configure = [new_size |-> <<0, 2>>]

-----------------------------------------------------------------------------
(* Properties of the selected cursor.                                      *)

\* C30: set_cursor and set_custom_cursor store the cursor they are given as
\* the selected cursor, and while the cursor is hidden they do nothing else;
\* set_cursor_visible never changes the selected cursor; after
\* set_cursor_visible(true) every live pointer of the pointer list shows the
\* selected cursor.
C30_SelectionSurvivesHiding ==
    [][ /\ \A i \in CursorIcons : SetCursor(i) => selected_cursor' = Named(i)
        /\ \A c \in CustomImages : SetCustomCursor(c) => selected_cursor' = Custom(c)
        /\ (op' \in {"set_cursor", "set_custom_cursor"} /\ ~cursor_visible) =>
              /\ requests' = <<>>
              /\ shown_cursor' = shown_cursor
              /\ ~cursor_visible'
        /\ op' = "set_cursor_visible" => selected_cursor' = selected_cursor
        /\ (op' = "set_cursor_visible" /\ cursor_visible') =>
              \A p \in {pointers'[i] : i \in DOMAIN pointers'} \cap alive' :
                  shown_cursor'[p] = Some(selected_cursor)
      ]_vars

\* A custom cursor selected while two pointers show the empty cursor.
C30_Witness ==
    /\ op = "set_custom_cursor"
    /\ ~cursor_visible
    /\ selected_cursor = Custom(0)
    /\ requests = <<>>
    /\ Cardinality(LiveRegistered) = 2
    /\ \A p \in LiveRegistered : shown_cursor[p] = Some(Empty)

-----------------------------------------------------------------------------
(* Properties of a configure of the other shell variant.                   *)

\* C31: configure_xdg on a layer window returns false and configure_layer on
\* a top-level window returns true; either changes no field, pushes no event
\* and makes no call.  The shell variant never changes.
C31_WrongVariantIgnored ==
    [][ /\ shell' = shell
        /\ (op' \in {"configure_xdg", "configure_layer"} /\ op' # OwnConfigure) =>
              /\ ret' = IF op' = "configure_xdg" THEN "false" ELSE "true"
              /\ Fields' = Fields
              /\ events' = <<>>
              /\ requests' = <<>>
      ]_vars

\* A layer configure delivered to a configured top-level window of size
\* (2, MaxDim).
C31_Witness ==
    /\ shell = "Xdg"
    /\ op = "configure_layer"
    /\ ret = "true"
    /\ IsConfigured
    /\ size = <<2, MaxDim>>
    /\ requests = <<>>

-----------------------------------------------------------------------------
(* Properties of set_decorate.                                             *)

\* C32: set_decorate(d) on a top-level window changes nothing when d is the
\* stored decorate flag.  Otherwise it stores d, requests Client mode exactly
\* when d is false and the last configure's mode is Server, requests Server
\* mode exactly when d is true, and with a frame sets the frame hidden to ~d
\* and runs resize with the unchanged inner size; without a frame it does not
\* resize.
C32_SetDecorate ==
    [][ \A d \in BOOLEAN : (shell = "Xdg" /\ SetDecorate(d)) =>
          IF d = decorate
          THEN Fields' = Fields /\ requests' = <<>>
          ELSE /\ decorate' = d
               /\ "request_decoration_mode_client" \in ReqNames(requests')
                     <=> (~d /\ IsSome(last_configure)
                             /\ Configure.decoration_mode = "Server")
               /\ "request_decoration_mode_server" \in ReqNames(requests') <=> d
               /\ size' = size
               /\ IF IsSome(frame)
                  THEN /\ IsSome(frame')
                       /\ Unwrap(frame').hidden = ~d
                       /\ Resized(requests') \/ ret' = "panic"
                  ELSE /\ frame' = None
                       /\ ReqNames(requests') \cap ResizeRequests = {}
      ]_vars

\* Decorations turned off on a window with a frame: the frame is hidden and
\* the window resized, with no decoration-mode request.
C32_Witness ==
    /\ shell = "Xdg"
    /\ op = "set_decorate"
    /\ ~decorate
    /\ IsSome(frame)
    /\ Unwrap(frame).hidden
    /\ Resized(requests)
    /\ "request_decoration_mode_client" \notin ReqNames(requests)

-----------------------------------------------------------------------------
(* Properties of resize.                                                   *)

\* The number of requests named `name' in rs.
Count(name, rs) == Cardinality({i \in DOMAIN rs : rs[i][1] = name})

\* The step ran resize: request_inner_size on a layer window or a top-level
\* window that is unconfigured or stateless, configure_layer on a layer
\* window, a set_decorate that changes the flag of a framed window, and a
\* configure_xdg that returns true.
ResizeRan ==
    \/ /\ op' = "request_inner_size"
       /\ shell = "WlrLayer" \/ last_configure = None \/ IsStateless(Configure)
    \/ op' = "configure_layer" /\ shell = "WlrLayer"
    \/ op' = "set_decorate" /\ shell = "Xdg" /\ decorate' # decorate /\ IsSome(frame)
    \/ op' = "configure_xdg" /\ shell = "Xdg" /\ ret' \in {"true", "panic"}

C34_StatelessSizeIsSize ==
    (shell = "Xdg" /\ IsSome(last_configure) /\ IsStateless(Configure))
        => stateless_size = size

\* A stateless configure of a framed top-level window that is not resizable
\* and whose size was requested before.
C34_Witness ==
    /\ shell = "Xdg"
    /\ op = "configure_xdg"
    /\ ret = "true"
    /\ IsSome(last_configure)
    /\ IsStateless(Configure)
    /\ IsSome(frame)
    /\ ~resizable
    /\ size = <<2, 1>>
    /\ stateless_size = <<2, 1>>

-----------------------------------------------------------------------------
(* Invariants of the cursor grab.                                          *)

\* C35: the applied grab mode is not None only with a pointer-constraints
\* service.  With the service the applied mode is the user mode after every
\* set_cursor_grab and pointer_entered; without it set_cursor_grab(m) still
\* records m as the user mode, fails for m other than None, and the applied
\* mode stays None.
C35_GrabInvariant ==
    /\ [](current_grab_mode # "None" => pointer_constraints)
    /\ [][ /\ \A m \in GrabModes : SetCursorGrab(m) =>
                /\ user_grab_mode' = m
                /\ IF pointer_constraints
                   THEN current_grab_mode' = m /\ ret' = "Ok"
                   ELSE /\ current_grab_mode' = "None"
                        /\ ret' = IF m = "None" THEN "Ok" ELSE "NotSupported"
           /\ (op' = "pointer_entered" /\ pointer_constraints) =>
                current_grab_mode' = user_grab_mode'
         ]_vars

\* A failed set_cursor_grab(Locked) on a window without the service and with
\* a registered pointer.
C35_Witness ==
    /\ ~pointer_constraints
    /\ op = "set_cursor_grab"
    /\ ret = "NotSupported"
    /\ user_grab_mode = "Locked"
    /\ current_grab_mode = "None"
    /\ pointers # <<>>

-----------------------------------------------------------------------------
(* Invariants of the decoration frame.                                     *)

\* C36: a top-level window's frame, when it has one, is hidden iff the
\* decorate flag is false, in every state reached by configure_xdg (frame
\* created, dropped and created again) and set_decorate.
C36_HiddenIffNotDecorated ==
    (shell = "Xdg" /\ IsSome(frame)) => (Unwrap(frame).hidden <=> ~decorate)

\* A frame created by a configure while decorations are off: it is hidden at
\* once.
C36_Witness ==
    /\ shell = "Xdg"
    /\ op = "configure_xdg"
    /\ CreationCalls(requests) # {}
    /\ IsSome(frame)
    /\ Unwrap(frame).hidden
    /\ ~decorate

-----------------------------------------------------------------------------
(* Properties of reload_min_max_hints.                                     *)

\* C37: reload_min_max_hints on a top-level window, with or without a frame,
\* sends the stored minimum and maximum hints and leaves the stored
\* min_inner_size and max_inner_size unchanged.
C37_ReloadIdempotent ==
    [][ (shell = "Xdg" /\ op' = "reload_min_max_hints") =>
            /\ min_inner_size' = min_inner_size
            /\ max_inner_size' = max_inner_size
            /\ requests' = <<SetMinSizeRequest(min_inner_size),
                             SetMaxSizeRequest(max_inner_size)>>
      ]_vars

-----------------------------------------------------------------------------
(* The non-zero conversions in resize.                                     *)

\* C38: resize is never run with a width or height of 0 while a visible
\* frame exists: no configure_xdg, request_inner_size or set_decorate panics
\* in NonZeroU32::new(..).unwrap().
C38_ResizeNeverZero ==
    ~( /\ op \in {"configure_xdg", "request_inner_size", "set_decorate"}
       /\ ret = "panic" )

-----------------------------------------------------------------------------
(* A size requested before the first configure.                            *)

\* C39: on a top-level window without a configure request_inner_size sets
\* the size to the requested one and leaves the stateless size alone; the
\* first configure_xdg, when it is stateless and gives no size, sets the size
\* and the stateless size to the initial size under the suggested bounds,
\* also right after such a request.
C39_RequestBeforeConfigure ==
    [][ /\ (shell = "Xdg" /\ last_configure = None /\ op' = "request_inner_size") =>
              /\ stateless_size' = stateless_size
              /\ \A sz \in SeedSizes : RequestInnerSize(sz) =>
                    size' = ToLogical(sz, scale_factor)
        /\ ( /\ shell = "Xdg"
             /\ last_configure = None
             /\ op' = "configure_xdg"
             /\ IsStateless(Unwrap(last_configure'))
             /\ Unwrap(last_configure').new_size = <<0, 0>> ) =>
              LET c == Unwrap(last_configure')
                  seed == ToLogical(Unwrap(initial_size), scale_factor)
              IN  /\ ret' = "true"
                  /\ size' = <<Bounded(seed[1], c, frame', 1), Bounded(seed[2], c, frame', 2)>>
                  /\ stateless_size' = size'
      ]_vars

\* A size request on an unconfigured top-level window: the size is the
\* requested (1, 1), the stateless size still the initial (MaxDim, 1), and the
\* initial size is still pending for the first configure.
C39_Witness ==
    /\ shell = "Xdg"
    /\ last_configure = None
    /\ op = "request_inner_size"
    /\ IsSome(initial_size)
    /\ Unwrap(initial_size) = Logical(MaxDim, 1)
    /\ size = <<1, 1>>
    /\ stateless_size = <<MaxDim, 1>>

====
